---- MODULE Spec2Model ----
(***************************************************************************)
(* The app lifecycle manager of streamlit-host (streamlit_host/            *)
(* app_manager.py): the per-app directory with meta.json, run.log and      *)
(* venv, the port allocator, the child processes, the request handlers     *)
(* (create, get, list, start, stop, update, delete), which the HTTP server *)
(* runs on concurrent threads, and the background provisioner threads      *)
(* they dispatch.  A thread takes one step per access to the shared state  *)
(* (the files and the process table); between two steps of a thread any    *)
(* other thread, and any child process, may step.                          *)
(***************************************************************************)
EXTENDS Integers, Sequences, FiniteSets, TLC

\* ------------------------------------------------------------------ bounds
\* Number of client operations issued in a run.
MaxOps == 3
\* Number of child processes spawned in a run (pids are 1..MaxPid).
MaxPid == 2
\* The allocator range is PortMin..PortMax (Settings.port_min, port_max).
PortMin == 8501
PortMax == 8502

\* The ids uuid4 mints, in the order it mints them, and an id it never
\* mints, which a request for an unknown app names.
Minted == <<"a1", "a2">>
Unknown == "ax"
Apps == {Minted[i] : i \in 1..Len(Minted)} \cup {Unknown}
\* The names create is given, and the ones update is given ("" for none).
CreateNames == {"n1"}
UpdateNames == {"", "n2"}
\* The content of an uploaded file; NoFile where update is given none.  The
\* files create is given, and the pairs of files update is given.
NoFile == ""
CreateFiles == [req |-> "r1", app |-> "e1"]
UpdateFiles == {[req |-> NoFile, app |-> NoFile], [req |-> "r2", app |-> "e2"]}
\* The update requests issued: a plain restart (no name, no file), and a
\* rename that replaces both files.
UpdateInputs ==
    {u \in [name : UpdateNames, files : UpdateFiles] :
        (u.name = "") = (u.files.req = NoFile)}
\* The request threads of the HTTP server; a request runs on the first idle
\* one.  The provisioner threads that can exist at a time.
Clients == <<"t1", "t2">>
Threads == {Clients[i] : i \in 1..Len(Clients)}
Slots == {"p1", "p2"}

Pids == 1..MaxPid

\* ------------------------------------------------------------------ AppMeta
\* Optional fields: None is 0 for port and pid, "" for name and error.
NoPort == 0
NoPid == 0
NoName == ""
NoError == ""
NoDigest == <<>>

AppStatus == {"created", "starting", "running", "failed", "stopped"}

\* AppMeta(app_id, name, status=starting, port): the other fields default.
AppMeta(app_id, name, created_at, status, port) ==
    [app_id |-> app_id, name |-> name, created_at |-> created_at,
     status |-> status, port |-> port, pid |-> NoPid, error |-> NoError,
     requirements_sha256 |-> NoDigest, app_sha256 |-> NoDigest]

\* No record: what a thread holds before it loads one, and the content of
\* apps/<id>/meta.json when that file does not exist.
NoMeta ==
    [app_id |-> "", name |-> NoName, created_at |-> 0, status |-> "absent",
     port |-> NoPort, pid |-> NoPid, error |-> NoError,
     requirements_sha256 |-> NoDigest, app_sha256 |-> NoDigest]

VARIABLES
    dir,        \* dir[a]: the directory apps/<a>/ exists
    metaFile,   \* metaFile[a]: the content of apps/<a>/meta.json, or NoMeta
    logFile,    \* logFile[a]: apps/<a>/run.log exists
    venv,       \* venv[a]: apps/<a>/venv/ exists with its python and pip
    reqFile,    \* reqFile[a]: the content of apps/<a>/requirements.txt
    appFile,    \* appFile[a]: the content of apps/<a>/app.py
    procs,      \* procs[p]: the child process with pid p
    nextPid,    \* the pid the next spawned child gets
    cl,         \* cl[t]: the request thread t: operation, position, locals
    prov,       \* prov[s]: the provisioner thread in slot s
    minted,     \* the app ids create has minted
    touched,    \* the app ids a stop, update or delete was issued for
    deleted,    \* the app ids a delete has returned for
    ops,        \* the number of client operations issued
    port_max,   \* Settings.port_max, the last port of the allocator range
    rc,         \* the _run_cmd calls of one provisioner, taken by themselves
    sv,         \* one meta.json with its writers and readers, by themselves
    rq,         \* one HTTP request on its way through main.py and proxy.py
    ws,         \* one WebSocket session of proxy_ws: its two connections, the
                \* frames on their way and the two relay tasks
    ts,         \* the clock and one record's timestamps, with the threads
                \* that save the record
    call        \* one call of a function that touches no shared state
                \* (the subprotocol choice, the header filter, tail_logs,
                \* run_all.main with its two processes), or the
                \* number of starts of the API process

\* What the steps of the lifecycle manager leave alone.
aside == <<port_max, rc, sv, rq, ws, ts, call>>

\* The state of the lifecycle manager.
manager == <<dir, metaFile, logFile, venv, reqFile, appFile, procs, nextPid,
             cl, prov, minted, touched, deleted, ops>>

vars == <<manager, aside>>

\* range(settings.port_min, settings.port_max + 1)
Ports == PortMin..port_max

\* utils.sha256_file(path): the digest of the file's content, one digest per
\* content.
sha256_file(content) == <<"sha256", content>>

\* ------------------------------------------------------------------ processes
NoProc == [st |-> "unborn", port |-> NoPort, app |-> ""]

\* psutil: the process exists, is running and is not a zombie.
IsLive(ps, pid) == pid \in Pids /\ ps[pid].st \in {"spawned", "bound"}

\* utils.is_port_free(host, port): a bind-and-close probe succeeds, which it
\* does unless a live process listens on the port.
is_port_free(ps, port) ==
    ~ \E p \in Pids : ps[p].st = "bound" /\ ps[p].port = port

\* ------------------------------------------------------------------ helpers
\* Mutant of refresh_status: a record whose process has died is left as it is.
refresh_status_no_demote(meta, ps) ==
    IF meta.pid # NoPid /\ IsLive(ps, meta.pid)
          /\ meta.status \notin {"running", "starting"}
    THEN [meta |-> [meta EXCEPT !.status = "running"], save |-> TRUE]
    ELSE [meta |-> meta, save |-> FALSE]

\* _refresh_status(meta): the reconciled record, and whether it is saved.
refresh_status(meta, ps) ==
    IF meta.pid # NoPid
    THEN IF IsLive(ps, meta.pid)
         THEN IF meta.status \notin {"running", "starting"}
              THEN [meta |-> [meta EXCEPT !.status = "running"], save |-> TRUE]
              ELSE [meta |-> meta, save |-> FALSE]
         ELSE IF meta.status \in {"running", "starting"}
              THEN [meta |-> [meta EXCEPT !.status = "stopped", !.pid = NoPid],
                    save |-> TRUE]
              ELSE [meta |-> meta, save |-> FALSE]
    ELSE [meta |-> meta, save |-> FALSE]

\* _alloc_port(): the first port of the range that is free, NoPort when the
\* scan ends without one (RuntimeError("no free ports available")).
alloc_port(ps) ==
    IF \E q \in Ports : is_port_free(ps, q)
    THEN CHOOSE q \in Ports :
            /\ is_port_free(ps, q)
            /\ \A r \in Ports : is_port_free(ps, r) => q <= r
    ELSE NoPort

\* Mutant of ResolvePort: the port is always taken from the allocator.
ResolvePortFirstFree(port, ps) == alloc_port(ps)

\* start_app and _provision_and_start: keep the record's port if it is set
\* and free, else allocate.
ResolvePort(port, ps) ==
    IF port = NoPort \/ ~ is_port_free(ps, port) THEN alloc_port(ps) ELSE port

\* update_app re-resolves the port with a plain _alloc_port().
UpdatePort(port, ps) == alloc_port(ps)

\* _kill_pid_tree(pid): the process table afterwards.
kill_pid_tree(ps, pid) ==
    IF pid \in Pids /\ ps[pid].st \in {"spawned", "bound", "zombie"}
    THEN [ps EXCEPT ![pid].st = "gone"]
    ELSE ps

\* Mutant of ClearPid: the pid is kept.
KeepPid(meta) == meta

\* stop_app, after the kill: meta.pid = None.
ClearPid(meta) == [meta EXCEPT !.pid = NoPid]

\* Mutant of StoppedMeta: the status is set only for a running app.
StoppedIfRunning(meta) ==
    IF meta.status = "running" THEN [meta EXCEPT !.status = "stopped"] ELSE meta

\* stop_app: meta.status = AppStatus.stopped.
StoppedMeta(meta) == [meta EXCEPT !.status = "stopped"]

\* start_app's and update_app's record before the save.
StartingMeta(meta, port) ==
    [meta EXCEPT !.pid = NoPid, !.error = NoError, !.port = port,
                 !.status = "starting"]

\* update_app: the name is replaced when one is given and is not blank.
UpdatedName(meta, name) == IF name # NoName THEN name ELSE meta.name

\* _provision_and_start's record when the child was spawned.
RunningMeta(meta, pid) == [meta EXCEPT !.pid = pid, !.status = "running"]

\* _provision_and_start's except branch.
FailedMeta(meta, msg) == [meta EXCEPT !.status = "failed", !.error = msg]

\* list_apps: the records sorted by created_at, newest first.
RECURSIVE SortDesc(_)
SortDesc(S) ==
    IF S = {} THEN <<>>
    ELSE LET m == CHOOSE x \in S : \A y \in S : y.created_at <= x.created_at
         IN <<m>> \o SortDesc(S \ {m})

\* ------------------------------------------------------------------ threads
Idle ==
    [op |-> "none", pc |-> "idle", app |-> "", name |-> NoName,
     meta |-> NoMeta, smeta |-> NoMeta, todo |-> {}, acc |-> {},
     ret |-> "none", out |-> <<>>, live |-> {}, fresh |-> FALSE,
     req |-> NoFile, app_py |-> NoFile]

Free == [pc |-> "free", app |-> "", meta |-> NoMeta, port |-> NoPort]

HasFreeSlot == \E s \in Slots : prov[s].pc = "free"

\* threading.Thread(target=self._provision_and_start, args=(app_id,)).start()
Dispatch(pv, a) ==
    LET s == CHOOSE x \in Slots : pv[x].pc = "free"
    IN [pv EXCEPT ![s] = [Free EXCEPT !.pc = "load", !.app = a]]

\* Nothing has been run, saved or requested in the parts taken by themselves.
NoCmd ==
    [pc |-> "none", cmd |-> 0, clock |-> 0, child |-> "none", pipe |-> 0,
     status |-> "starting", error |-> NoError]
NoSave ==
    [file |-> <<>>, wpc |-> "idle", wtext |-> <<>>, saved |-> {},
     rpc |-> "idle", text |-> <<>>, got |-> "none", n |-> 0]
NoRequest ==
    [pc |-> "idle", route |-> "", app |-> "", upstream |-> "", status |-> 0,
     n |-> 0, was |-> NoMeta]

NoSession == [pc |-> "none"]
NoStamps == [pc |-> "none"]
NoCall == [fn |-> "none"]

\* No WebSocket session, no timestamped save and no call is looked at.
Elsewhere ==
    /\ ws = NoSession
    /\ ts = NoStamps
    /\ call = NoCall

\* AppManager.__init__ on an empty data directory.
InitDisk ==
    /\ dir = [a \in Apps |-> FALSE]
    /\ metaFile = [a \in Apps |-> NoMeta]
    /\ logFile = [a \in Apps |-> FALSE]
    /\ venv = [a \in Apps |-> FALSE]
    /\ reqFile = [a \in Apps |-> NoFile]
    /\ appFile = [a \in Apps |-> NoFile]

\* No child process, no request and no provisioner yet.
InitThreads ==
    /\ procs = [p \in Pids |-> NoProc]
    /\ nextPid = 1
    /\ cl = [t \in Threads |-> Idle]
    /\ prov = [s \in Slots |-> Free]
    /\ minted = {}
    /\ touched = {}
    /\ deleted = {}
    /\ ops = 0

Init ==
    /\ InitDisk
    /\ InitThreads
    /\ port_max = PortMax
    /\ rc = NoCmd
    /\ sv = NoSave
    /\ rq = NoRequest
    /\ Elsewhere

\* A request thread returns: its result stays until its next request.
\* live holds the pids the request's reconciliation found alive, fresh
\* whether no stop, update or delete had been issued for the app
\* when the request returned.
Return(t, kind, out, live) ==
    [cl EXCEPT ![t] = [Idle EXCEPT !.op = cl[t].op, !.app = cl[t].app,
                                   !.ret = kind, !.out = out, !.live = live,
                                   !.fresh = cl[t].app \notin touched]]

Begin(t, op, a, pc) ==
    [cl EXCEPT ![t] = [Idle EXCEPT !.op = op, !.app = a, !.pc = pc]]

\* A request is taken by the first idle thread, and names an app create
\* has minted or the unknown one.
CanBegin(t) ==
    /\ ops < MaxOps
    /\ \E i \in 1..Len(Clients) :
        /\ Clients[i] = t
        /\ cl[t].pc = "idle"
        /\ \A j \in 1..(i - 1) : cl[Clients[j]].pc # "idle"

Known == minted \cup {Unknown}

Exists(a) == metaFile[a].status # "absent"

FsUnchanged == UNCHANGED <<dir, metaFile, logFile, venv, reqFile, appFile>>

\* ------------------------------------------------------------------ create
\* create_app: mint the id, make the directory, copy the files, allocate the
\* port, save the record and start the provisioner thread.  Nothing else
\* knows the id before create returns, so the handler is one step.
\* Mutants of CreateMeta: the port is not passed on; the status is left at
\* the model's default, created.
CreateMetaNoPort(a, name, port) ==
    [AppMeta(a, name, Cardinality(minted) + 1, "starting", NoPort) EXCEPT
        !.requirements_sha256 = sha256_file(CreateFiles.req),
        !.app_sha256 = sha256_file(CreateFiles.app)]

CreateMetaDefaultStatus(a, name, port) ==
    [AppMeta(a, name, Cardinality(minted) + 1, "created", port) EXCEPT
        !.requirements_sha256 = sha256_file(CreateFiles.req),
        !.app_sha256 = sha256_file(CreateFiles.app)]

CreateMeta(a, name, port) ==
    [AppMeta(a, name, Cardinality(minted) + 1, "starting", port) EXCEPT
        !.requirements_sha256 = sha256_file(CreateFiles.req),
        !.app_sha256 = sha256_file(CreateFiles.app)]

create_app(t, name) ==
    /\ CanBegin(t)
    /\ HasFreeSlot
    /\ Cardinality(minted) < Len(Minted)
    /\ LET a == Minted[Cardinality(minted) + 1]
           port == alloc_port(procs)
            meta == CreateMeta(a, name, port)
       IN /\ minted' = minted \cup {a}
          /\ dir' = [dir EXCEPT ![a] = TRUE]
          /\ reqFile' = [reqFile EXCEPT ![a] = CreateFiles.req]
          /\ appFile' = [appFile EXCEPT ![a] = CreateFiles.app]
          /\ IF port = NoPort
             THEN /\ cl' = [cl EXCEPT ![t] =
                             [Idle EXCEPT !.op = "create", !.app = a,
                                          !.ret = "RuntimeError"]]
                  /\ UNCHANGED <<metaFile, prov>>
             ELSE /\ metaFile' = [metaFile EXCEPT ![a] = meta]
                  /\ prov' = Dispatch(prov, a)
                  /\ cl' = [cl EXCEPT ![t] =
                             [Idle EXCEPT !.op = "create", !.app = a,
                                          !.ret = "ok", !.out = <<meta>>,
                                          !.fresh = TRUE]]
    /\ ops' = ops + 1
    /\ UNCHANGED <<logFile, venv, procs, nextPid, touched, deleted>>
    /\ UNCHANGED aside

\* ------------------------------------------------------------------ get, list
\* get_app: _load_meta.
GetBegin(t, a) ==
    /\ CanBegin(t)
    /\ cl' = IF Exists(a)
             THEN [cl EXCEPT ![t] = [Begin(t, "get", a, "get_refresh")[t]
                                      EXCEPT !.meta = metaFile[a]]]
             ELSE [cl EXCEPT ![t] = [Begin(t, "get", a, "idle")[t]
                                      EXCEPT !.ret = "NotFound",
                                             !.fresh = a \notin touched]]
    /\ ops' = ops + 1
    /\ FsUnchanged
    /\ UNCHANGED <<procs, nextPid, prov, minted, touched, deleted>>
    /\ UNCHANGED aside

\* get_app: _refresh_status and return.  A save into a directory that is
\* gone raises FileNotFoundError.
GetRefresh(t) ==
    /\ cl[t].pc = "get_refresh"
    /\ LET a == cl[t].app
           r == refresh_status(cl[t].meta, procs)
           live == IF IsLive(procs, r.meta.pid) THEN {r.meta.pid} ELSE {}
       IN IF r.save /\ ~ dir[a]
          THEN /\ cl' = Return(t, "NotFound", <<>>, {})
               /\ UNCHANGED metaFile
          ELSE /\ cl' = Return(t, "ok", <<r.meta>>, live)
               /\ metaFile' = IF r.save THEN [metaFile EXCEPT ![a] = r.meta]
                                        ELSE metaFile
    /\ UNCHANGED <<dir, logFile, venv, procs, nextPid, prov, minted, touched, deleted, ops>>
    /\ UNCHANGED <<reqFile, appFile, aside>>

\* list_apps: iterdir.
ListBegin(t) ==
    /\ CanBegin(t)
    /\ LET todo == {a \in Apps : dir[a]}
       IN cl' = IF todo = {}
                THEN [cl EXCEPT ![t] = [Idle EXCEPT !.op = "list", !.ret = "ok"]]
                ELSE [cl EXCEPT ![t] = [Idle EXCEPT !.op = "list",
                                                    !.pc = "list_load",
                                                    !.todo = todo]]
    /\ ops' = ops + 1
    /\ FsUnchanged
    /\ UNCHANGED <<procs, nextPid, prov, minted, touched, deleted>>
    /\ UNCHANGED aside

\* list_apps: the loop's next directory; one without meta.json is skipped.
ListLoad(t, a) ==
    /\ cl[t].pc = "list_load"
    /\ a \in cl[t].todo
    /\ LET rest == cl[t].todo \ {a}
       IN cl' = IF Exists(a)
                THEN [cl EXCEPT ![t].pc = "list_refresh", ![t].app = a,
                                ![t].meta = metaFile[a], ![t].todo = rest]
                ELSE IF rest = {}
                     THEN Return(t, "ok", SortDesc(cl[t].acc), cl[t].live)
                     ELSE [cl EXCEPT ![t].todo = rest]
    /\ FsUnchanged
    /\ UNCHANGED <<procs, nextPid, prov, minted, touched, deleted, ops>>
    /\ UNCHANGED aside

\* list_apps: _refresh_status of the loaded record; a record whose refresh
\* raises is left out.
ListRefresh(t) ==
    /\ cl[t].pc = "list_refresh"
    /\ LET a == cl[t].app
           r == refresh_status(cl[t].meta, procs)
           raised == r.save /\ ~ dir[a]
           acc == IF raised THEN cl[t].acc ELSE cl[t].acc \cup {r.meta}
           live == IF ~ raised /\ IsLive(procs, r.meta.pid)
                   THEN cl[t].live \cup {r.meta.pid} ELSE cl[t].live
       IN /\ metaFile' = IF r.save /\ ~ raised
                         THEN [metaFile EXCEPT ![a] = r.meta] ELSE metaFile
          /\ cl' = IF cl[t].todo = {}
                   THEN Return(t, "ok", SortDesc(acc), live)
                   ELSE [cl EXCEPT ![t].pc = "list_load", ![t].app = "",
                                   ![t].meta = NoMeta, ![t].acc = acc,
                                   ![t].live = live]
    /\ UNCHANGED <<dir, logFile, venv, procs, nextPid, prov, minted, touched, deleted, ops>>
    /\ UNCHANGED <<reqFile, appFile, aside>>

\* ------------------------------------------------------------------ stop
\* stop_app raised FileNotFoundError: the stop request answers 404,
\* delete_app returns without removing anything, update_app carries on.
StopRaised(t) ==
    CASE cl[t].op = "stop" -> Return(t, "NotFound", <<>>, {})
      [] cl[t].op = "delete" -> Return(t, "ok", <<>>, {})
      [] OTHER -> [cl EXCEPT ![t].pc = "upd_write", ![t].smeta = NoMeta]

\* The app ids a delete has returned for, after this step of thread t.
DeletedAfter(t) ==
    IF cl[t].op = "delete" /\ cl'[t].pc = "idle"
    THEN deleted \cup {cl[t].app} ELSE deleted

\* stop_app, called by the stop and delete requests: _load_meta.
StopBegin(t, op, a) ==
    /\ CanBegin(t)
    /\ op \in {"stop", "delete"}
    /\ cl' = IF Exists(a)
             THEN [cl EXCEPT ![t] = [Begin(t, op, a, "stop_refresh")[t]
                                      EXCEPT !.smeta = metaFile[a]]]
             ELSE [cl EXCEPT ![t] = [Begin(t, op, a, "idle")[t] EXCEPT
                        !.ret = IF op = "stop" THEN "NotFound" ELSE "ok"]]
    /\ deleted' = IF op = "delete" /\ ~ Exists(a)
                  THEN deleted \cup {a} ELSE deleted
    /\ touched' = touched \cup {a}
    /\ ops' = ops + 1
    /\ FsUnchanged
    /\ UNCHANGED <<procs, nextPid, prov, minted>>
    /\ UNCHANGED aside

\* stop_app, called by update_app: _load_meta.
StopLoad(t) ==
    /\ cl[t].pc = "stop_load"
    /\ cl' = IF Exists(cl[t].app)
             THEN [cl EXCEPT ![t].pc = "stop_refresh",
                             ![t].smeta = metaFile[cl[t].app]]
             ELSE StopRaised(t)
    /\ FsUnchanged
    /\ UNCHANGED <<procs, nextPid, prov, minted, touched, deleted, ops>>
    /\ UNCHANGED aside

\* stop_app: _refresh_status.
StopRefresh(t) ==
    /\ cl[t].pc = "stop_refresh"
    /\ LET a == cl[t].app
           r == refresh_status(cl[t].smeta, procs)
       IN IF r.save /\ ~ dir[a]
          THEN /\ cl' = StopRaised(t)
               /\ UNCHANGED metaFile
          ELSE /\ cl' = [cl EXCEPT ![t].smeta = r.meta,
                                   ![t].pc = IF r.meta.pid # NoPid
                                             THEN "stop_kill" ELSE "stop_save"]
               /\ metaFile' = IF r.save THEN [metaFile EXCEPT ![a] = r.meta]
                                        ELSE metaFile
    /\ deleted' = DeletedAfter(t)
    /\ UNCHANGED <<dir, logFile, venv, procs, nextPid, prov, minted, touched, ops>>
    /\ UNCHANGED <<reqFile, appFile, aside>>

\* stop_app with a pid: log "stopping", kill the tree, clear the pid.
StopKill(t) ==
    /\ cl[t].pc = "stop_kill"
    /\ LET a == cl[t].app
       IN /\ dir' = [dir EXCEPT ![a] = TRUE]
          /\ logFile' = [logFile EXCEPT ![a] = TRUE]
          /\ procs' = kill_pid_tree(procs, cl[t].smeta.pid)
          /\ cl' = [cl EXCEPT ![t].smeta = ClearPid(cl[t].smeta),
                              ![t].pc = "stop_save"]
    /\ UNCHANGED <<metaFile, venv, nextPid, prov, minted, touched,
                   deleted, ops>>
    /\ UNCHANGED <<reqFile, appFile, aside>>

\* stop_app: status stopped, save, log "stopped", return to the caller.
StopSave(t) ==
    /\ cl[t].pc = "stop_save"
    /\ LET a == cl[t].app
           meta == StoppedMeta(cl[t].smeta)
       IN IF ~ dir[a]
          THEN /\ cl' = StopRaised(t)
               /\ UNCHANGED <<metaFile, logFile>>
          ELSE /\ metaFile' = [metaFile EXCEPT ![a] = meta]
               /\ logFile' = [logFile EXCEPT ![a] = TRUE]
               /\ cl' = CASE cl[t].op = "stop" -> Return(t, "ok", <<meta>>, {})
                          [] cl[t].op = "delete" ->
                                [cl EXCEPT ![t].pc = "rmtree", ![t].smeta = NoMeta]
                          [] OTHER ->
                                [cl EXCEPT ![t].pc = "upd_write", ![t].smeta = NoMeta]
    /\ deleted' = DeletedAfter(t)
    /\ UNCHANGED <<dir, venv, procs, nextPid, prov, minted, touched, ops>>
    /\ UNCHANGED <<reqFile, appFile, aside>>

\* ------------------------------------------------------------------ delete
\* delete_app: shutil.rmtree(app_dir, ignore_errors=True).
Rmtree(t) ==
    /\ cl[t].pc = "rmtree"
    /\ LET a == cl[t].app
       IN /\ dir' = [dir EXCEPT ![a] = FALSE]
          /\ metaFile' = [metaFile EXCEPT ![a] = NoMeta]
          /\ logFile' = [logFile EXCEPT ![a] = FALSE]
          /\ venv' = [venv EXCEPT ![a] = FALSE]
          /\ reqFile' = [reqFile EXCEPT ![a] = NoFile]
          /\ appFile' = [appFile EXCEPT ![a] = NoFile]
          /\ deleted' = deleted \cup {a}
    /\ cl' = Return(t, "ok", <<>>, {})
    /\ UNCHANGED <<procs, nextPid, prov, minted, touched, ops>>
    /\ UNCHANGED aside

\* ------------------------------------------------------------------ start
\* start_app: _load_meta.
StartBegin(t, a) ==
    /\ CanBegin(t)
    /\ cl' = IF Exists(a)
             THEN [cl EXCEPT ![t] = [Begin(t, "start", a, "start_refresh")[t]
                                      EXCEPT !.meta = metaFile[a]]]
             ELSE [cl EXCEPT ![t] = [Begin(t, "start", a, "idle")[t]
                                      EXCEPT !.ret = "NotFound"]]
    /\ ops' = ops + 1
    /\ FsUnchanged
    /\ UNCHANGED <<procs, nextPid, prov, minted, touched, deleted>>
    /\ UNCHANGED aside

\* Mutant of AlreadyRunning: the early return is never taken.
NeverRunning(meta) == FALSE

\* start_app returns the record as it is when this holds.
AlreadyRunning(meta) == meta.status = "running" /\ meta.pid # NoPid

\* start_app: _refresh_status, and the early return.
StartRefresh(t) ==
    /\ cl[t].pc = "start_refresh"
    /\ LET a == cl[t].app
           r == refresh_status(cl[t].meta, procs)
       IN IF r.save /\ ~ dir[a]
          THEN /\ cl' = Return(t, "NotFound", <<>>, {})
               /\ UNCHANGED metaFile
          ELSE /\ cl' = IF AlreadyRunning(r.meta)
                        THEN Return(t, "ok", <<r.meta>>, {})
                        ELSE [cl EXCEPT ![t].meta = r.meta,
                                        ![t].pc = "start_save"]
               /\ metaFile' = IF r.save THEN [metaFile EXCEPT ![a] = r.meta]
                                        ELSE metaFile
    /\ UNCHANGED <<dir, logFile, venv, procs, nextPid, prov, minted, touched, deleted, ops>>
    /\ UNCHANGED <<reqFile, appFile, aside>>

\* start_app: resolve the port, save status starting, log, start the
\* provisioner thread.
StartSave(t) ==
    /\ cl[t].pc = "start_save"
    /\ HasFreeSlot
    /\ LET a == cl[t].app
           port == ResolvePort(cl[t].meta.port, procs)
           meta == StartingMeta(cl[t].meta, port)
       IN IF port = NoPort
          THEN /\ cl' = Return(t, "RuntimeError", <<>>, {})
               /\ UNCHANGED <<metaFile, logFile, prov>>
          ELSE IF ~ dir[a]
          THEN /\ cl' = Return(t, "NotFound", <<>>, {})
               /\ UNCHANGED <<metaFile, logFile, prov>>
          ELSE /\ metaFile' = [metaFile EXCEPT ![a] = meta]
               /\ logFile' = [logFile EXCEPT ![a] = TRUE]
               /\ prov' = Dispatch(prov, a)
               /\ cl' = Return(t, "ok", <<meta>>, {})
    /\ UNCHANGED <<dir, venv, procs, nextPid, minted, touched, deleted,
                   ops>>
    /\ UNCHANGED <<reqFile, appFile, aside>>

\* ------------------------------------------------------------------ update
\* update_app: _load_meta; the record it holds from here on is this one.
UpdateBegin(t, a, name, files) ==
    /\ CanBegin(t)
    /\ cl' = IF Exists(a)
             THEN [cl EXCEPT ![t] = [Begin(t, "update", a, "stop_load")[t]
                                      EXCEPT !.meta = metaFile[a],
                                             !.name = name,
                                             !.req = files.req,
                                             !.app_py = files.app]]
             ELSE [cl EXCEPT ![t] = [Begin(t, "update", a, "idle")[t]
                                      EXCEPT !.ret = "NotFound"]]
    /\ touched' = touched \cup {a}
    /\ ops' = ops + 1
    /\ FsUnchanged
    /\ UNCHANGED <<procs, nextPid, prov, minted, deleted>>
    /\ UNCHANGED aside

\* update_app: a digest is recomputed when the file is given.
UpdatedDigest(digest, content) ==
    IF content # NoFile THEN sha256_file(content) ELSE digest

\* update_app: a file is overwritten when one is given.
UpdatedFile(old, content) == IF content # NoFile THEN content ELSE old

\* update_app after the stop: the name, the files given copied into the
\* directory and their digests, error and pid cleared, status starting, a
\* port from the allocator, save, start the provisioner thread.  A copy into
\* a directory that is gone raises FileNotFoundError; the allocator raises
\* after the files were copied.
UpdWrite(t) ==
    /\ cl[t].pc = "upd_write"
    /\ HasFreeSlot
    /\ LET a == cl[t].app
           given == cl[t].req # NoFile \/ cl[t].app_py # NoFile
           port == UpdatePort(cl[t].meta.port, procs)
           meta == [StartingMeta(cl[t].meta, port) EXCEPT
                        !.name = UpdatedName(cl[t].meta, cl[t].name),
                        !.requirements_sha256 =
                            UpdatedDigest(cl[t].meta.requirements_sha256, cl[t].req),
                        !.app_sha256 =
                            UpdatedDigest(cl[t].meta.app_sha256, cl[t].app_py)]
       IN IF given /\ ~ dir[a]
          THEN /\ cl' = Return(t, "NotFound", <<>>, {})
               /\ UNCHANGED <<metaFile, prov, reqFile, appFile>>
          ELSE /\ reqFile' = [reqFile EXCEPT ![a] = UpdatedFile(reqFile[a], cl[t].req)]
               /\ appFile' = [appFile EXCEPT ![a] = UpdatedFile(appFile[a], cl[t].app_py)]
               /\ IF port = NoPort
                  THEN /\ cl' = Return(t, "RuntimeError", <<>>, {})
                       /\ UNCHANGED <<metaFile, prov>>
                  ELSE IF ~ dir[a]
                  THEN /\ cl' = Return(t, "NotFound", <<>>, {})
                       /\ UNCHANGED <<metaFile, prov>>
                  ELSE /\ metaFile' = [metaFile EXCEPT ![a] = meta]
                       /\ prov' = Dispatch(prov, a)
                       /\ cl' = Return(t, "ok", <<meta>>, {})
    /\ UNCHANGED <<dir, logFile, venv, procs, nextPid, minted, touched,
                   deleted, ops>>
    /\ UNCHANGED aside

\* ------------------------------------------------------------------ provisioner
\* _provision_and_start: _load_meta, outside the try; a missing meta.json
\* ends the thread.
ProvLoad(s) ==
    /\ prov[s].pc = "load"
    /\ prov' = IF Exists(prov[s].app)
               THEN [prov EXCEPT ![s].pc = "port",
                                 ![s].meta = metaFile[prov[s].app]]
               ELSE [prov EXCEPT ![s] = Free]
    /\ FsUnchanged
    /\ UNCHANGED <<procs, nextPid, cl, minted, touched, deleted, ops>>
    /\ UNCHANGED aside

\* The except branch: status failed, the error, save, log "FAILED".  The
\* save raises out of the handler when the directory is gone, and the
\* thread ends with nothing written.
ProvFail(s, msg, d, lg) ==
    LET a == prov[s].app
    IN /\ prov' = [prov EXCEPT ![s] = Free]
       /\ dir' = d
       /\ IF d[a]
          THEN /\ metaFile' = [metaFile EXCEPT ![a] = FailedMeta(prov[s].meta, msg)]
               /\ logFile' = [lg EXCEPT ![a] = TRUE]
          ELSE /\ metaFile' = metaFile
               /\ logFile' = lg

\* Resolve the port, set status starting, save.
ProvPort(s) ==
    /\ prov[s].pc = "port"
    /\ LET a == prov[s].app
           port == ResolvePort(prov[s].meta.port, procs)
           meta == [prov[s].meta EXCEPT !.port = port, !.status = "starting"]
       IN IF port = NoPort
          THEN ProvFail(s, "no free ports available", dir, logFile)
          ELSE IF ~ dir[a]
          THEN ProvFail(s, "No such file or directory", dir, logFile)
          ELSE /\ metaFile' = [metaFile EXCEPT ![a] = meta]
               /\ prov' = [prov EXCEPT ![s].pc = "venv", ![s].meta = meta,
                                       ![s].port = port]
               /\ UNCHANGED <<dir, logFile>>
    /\ UNCHANGED <<venv, procs, nextPid, cl, minted, touched, deleted,
                   ops>>
    /\ UNCHANGED <<reqFile, appFile, aside>>

\* Create the venv when the directory has none: _run_cmd logs the command
\* (which makes the app directory if it is gone) and runs it; ok is whether
\* the command exits 0.
ProvVenv(s, ok) ==
    /\ prov[s].pc = "venv"
    /\ LET a == prov[s].app
           d == [dir EXCEPT ![a] = TRUE]
           lg == [logFile EXCEPT ![a] = TRUE]
       IN IF venv[a]
          THEN /\ ok
               /\ prov' = [prov EXCEPT ![s].pc = "install"]
               /\ UNCHANGED <<dir, metaFile, logFile, venv>>
          ELSE IF ok
          THEN /\ prov' = [prov EXCEPT ![s].pc = "install"]
               /\ dir' = d
               /\ logFile' = lg
               /\ venv' = [venv EXCEPT ![a] = TRUE]
               /\ UNCHANGED metaFile
          ELSE /\ ProvFail(s, "command failed", d, lg)
               /\ UNCHANGED venv
    /\ UNCHANGED <<procs, nextPid, cl, minted, touched, deleted, ops>>
    /\ UNCHANGED <<reqFile, appFile, aside>>

\* The install commands (pip upgrade, streamlit, requirements.txt), each a
\* _run_cmd: the command is logged, then started from venv/bin/pip, which
\* raises FileNotFoundError when the venv is gone; ok is whether all exit 0.
ProvInstall(s, ok) ==
    /\ prov[s].pc = "install"
    /\ LET a == prov[s].app
           d == [dir EXCEPT ![a] = TRUE]
           lg == [logFile EXCEPT ![a] = TRUE]
       IN IF ~ venv[a]
          THEN /\ ok
               /\ ProvFail(s, "No such file or directory", d, lg)
          ELSE IF ok
          THEN /\ prov' = [prov EXCEPT ![s].pc = "spawn"]
               /\ dir' = d
               /\ logFile' = lg
               /\ UNCHANGED metaFile
          ELSE ProvFail(s, "command failed", d, lg)
    /\ UNCHANGED <<venv, procs, nextPid, cl, minted, touched, deleted,
                   ops>>
    /\ UNCHANGED <<reqFile, appFile, aside>>

\* Open run.log, start streamlit from venv/bin/python on the resolved port,
\* record pid and status running, save, log "started".
ProvSpawn(s) ==
    /\ prov[s].pc = "spawn"
    /\ LET a == prov[s].app
       IN IF ~ dir[a]
          THEN /\ ProvFail(s, "No such file or directory", dir, logFile)
               /\ UNCHANGED <<procs, nextPid>>
          ELSE IF ~ venv[a]
          THEN /\ ProvFail(s, "No such file or directory", dir,
                           [logFile EXCEPT ![a] = TRUE])
               /\ UNCHANGED <<procs, nextPid>>
          ELSE /\ nextPid <= MaxPid
               /\ procs' = [procs EXCEPT ![nextPid] =
                              [st |-> "spawned", port |-> prov[s].port,
                               app |-> a]]
               /\ nextPid' = nextPid + 1
               /\ metaFile' = [metaFile EXCEPT ![a] =
                                  RunningMeta(prov[s].meta, nextPid)]
               /\ logFile' = [logFile EXCEPT ![a] = TRUE]
               /\ prov' = [prov EXCEPT ![s] = Free]
               /\ UNCHANGED dir
    /\ UNCHANGED <<venv, cl, minted, touched, deleted, ops>>
    /\ UNCHANGED <<reqFile, appFile, aside>>

\* ------------------------------------------------------------------ children
\* The streamlit child binds its port, or exits when the port is taken.
ChildBind(p) ==
    /\ procs[p].st = "spawned"
    /\ procs' = [procs EXCEPT ![p].st =
                    IF is_port_free(procs, procs[p].port)
                    THEN "bound" ELSE "zombie"]
    /\ FsUnchanged
    /\ UNCHANGED <<nextPid, cl, prov, minted, touched, deleted, ops>>
    /\ UNCHANGED aside

\* The child exits by itself (a crash of the user's script).
ChildExit(p) ==
    /\ procs[p].st \in {"spawned", "bound"}
    /\ procs' = [procs EXCEPT ![p].st = "zombie"]
    /\ FsUnchanged
    /\ UNCHANGED <<nextPid, cl, prov, minted, touched, deleted, ops>>
    /\ UNCHANGED aside

\* ------------------------------------------------------------------ system
Next ==
    \/ \E t \in Threads, n \in CreateNames : create_app(t, n)
    \/ \E t \in Threads, a \in Known : GetBegin(t, a)
    \/ \E t \in Threads : GetRefresh(t)
    \/ \E t \in Threads : ListBegin(t)
    \/ \E t \in Threads, a \in Apps : ListLoad(t, a)
    \/ \E t \in Threads : ListRefresh(t)
    \/ \E t \in Threads, a \in Known : StopBegin(t, "stop", a)
    \/ \E t \in Threads, a \in Known : StopBegin(t, "delete", a)
    \/ \E t \in Threads : StopLoad(t)
    \/ \E t \in Threads : StopRefresh(t)
    \/ \E t \in Threads : StopKill(t)
    \/ \E t \in Threads : StopSave(t)
    \/ \E t \in Threads : Rmtree(t)
    \/ \E t \in Threads, a \in Known : StartBegin(t, a)
    \/ \E t \in Threads : StartRefresh(t)
    \/ \E t \in Threads : StartSave(t)
    \/ \E t \in Threads, a \in Known, u \in UpdateInputs :
            UpdateBegin(t, a, u.name, u.files)
    \/ \E t \in Threads : UpdWrite(t)
    \/ \E s \in Slots : ProvLoad(s)
    \/ \E s \in Slots : ProvPort(s)
    \/ \E s \in Slots, ok \in BOOLEAN : ProvVenv(s, ok)
    \/ \E s \in Slots, ok \in BOOLEAN : ProvInstall(s, ok)
    \/ \E s \in Slots : ProvSpawn(s)
    \/ \E p \in Pids : ChildBind(p)
    \/ \E p \in Pids : ChildExit(p)

Spec == Init /\ [][Next]_vars

\* The manager configured with a range of exactly one port
\* (STREAMLIT_HOST_PORT_MAX = STREAMLIT_HOST_PORT_MIN).
OnePortInit ==
    /\ InitDisk
    /\ InitThreads
    /\ port_max = PortMin
    /\ rc = NoCmd
    /\ sv = NoSave
    /\ rq = NoRequest
    /\ Elsewhere

OnePortSpec == OnePortInit /\ [][Next]_vars

\* ------------------------------------------------------------------ _run_cmd
\* The commands _provision_and_start runs with _run_cmd, one after the other
\* (a directory without venv, a manifest that is not empty and does not name
\* streamlit), and the timeout it passes with each, in seconds.
Commands == <<"venv", "pip", "streamlit", "requirements">>
NoTimeout == 0
PipTimeout == 900
StreamlitTimeout == 1200
RequirementsTimeout == 1800
Timeout(c) ==
    CASE c = 2 -> PipTimeout
      [] c = 3 -> StreamlitTimeout
      [] c = 4 -> RequirementsTimeout
      [] OTHER -> NoTimeout

\* Time is read in steps of TickS seconds up to MaxClock; the pipe between
\* the command and _run_cmd holds up to MaxPipe unread lines.
TickS == 300
MaxClock == 2100
MaxPipe == 2

\* The provisioner reaches its first _run_cmd.
RunBegin ==
    /\ rc.pc = "none"
    /\ rc' = [rc EXCEPT !.pc = "popen", !.cmd = 1]
    /\ UNCHANGED <<manager, port_max, sv, rq, ws, ts, call>>

\* _run_cmd: log the command, subprocess.Popen, start = time.time().
Popen ==
    /\ rc.pc = "popen"
    /\ rc' = [rc EXCEPT !.pc = "read", !.child = "up", !.clock = 0, !.pipe = 0]
    /\ UNCHANGED <<manager, port_max, sv, rq, ws, ts, call>>

\* The command prints a line.
ChildPrints ==
    /\ rc.child = "up"
    /\ rc.pipe < MaxPipe
    /\ rc' = [rc EXCEPT !.pipe = rc.pipe + 1]
    /\ UNCHANGED <<manager, port_max, sv, rq, ws, ts, call>>

\* The command exits with a code.
ChildEnds(code) ==
    /\ rc.child = "up"
    /\ rc' = [rc EXCEPT !.child = IF code = 0 THEN "exit0" ELSE "exit1"]
    /\ UNCHANGED <<manager, port_max, sv, rq, ws, ts, call>>

\* Time passes while _run_cmd is in its loop.
Tick ==
    /\ rc.pc = "read"
    /\ rc.clock < MaxClock
    /\ rc' = [rc EXCEPT !.clock = rc.clock + TickS]
    /\ UNCHANGED <<manager, port_max, sv, rq, ws, ts, call>>

\* The except branch of _provision_and_start, after _run_cmd's finally has
\* killed the command.
CmdFailed(msg) ==
    [rc EXCEPT !.pc = "failed", !.status = "failed", !.error = msg,
               !.child = IF rc.child = "up" THEN "killed" ELSE rc.child,
               !.pipe = 0]

\* _run_cmd: the loop `for line in p.stdout` gets a line, logs it, and then
\* compares the time spent with the timeout.
ReadLine ==
    /\ rc.pc = "read"
    /\ rc.pipe > 0
    /\ rc' = IF Timeout(rc.cmd) # NoTimeout /\ rc.clock > Timeout(rc.cmd)
             THEN CmdFailed("command timeout")
             ELSE [rc EXCEPT !.pipe = rc.pipe - 1]
    /\ UNCHANGED <<manager, port_max, sv, rq, ws, ts, call>>

\* _run_cmd: the loop ends at end of file, which is when the command has
\* exited and its lines are read; p.wait() gives the exit code.
ReadEof ==
    /\ rc.pc = "read"
    /\ rc.pipe = 0
    /\ rc.child \in {"exit0", "exit1"}
    /\ rc' = IF rc.child = "exit1" THEN CmdFailed("command failed")
             ELSE IF rc.cmd < Len(Commands)
             THEN [rc EXCEPT !.pc = "popen", !.cmd = rc.cmd + 1]
             ELSE [rc EXCEPT !.pc = "spawn"]
    /\ UNCHANGED <<manager, port_max, sv, rq, ws, ts, call>>

RunCmdNext ==
    \/ RunBegin
    \/ Popen
    \/ ChildPrints
    \/ \E code \in {0, 1} : ChildEnds(code)
    \/ Tick
    \/ ReadLine
    \/ ReadEof

\* The provisioner thread takes its steps and time passes; nothing makes the
\* command print or exit.
RunCmdSpec ==
    /\ Init
    /\ [][RunCmdNext]_vars
    /\ WF_vars(RunBegin)
    /\ WF_vars(Popen)
    /\ WF_vars(Tick)
    /\ WF_vars(ReadLine)
    /\ WF_vars(ReadEof)

\* ------------------------------------------------------------------ _save_meta, _load_meta
\* meta.model_dump_json(): the text of a record, token by token.
Dump(meta) ==
    <<"{", meta.app_id, meta.name, meta.created_at, meta.status, meta.port,
      meta.pid, meta.error, meta.requirements_sha256, meta.app_sha256, "}">>

\* AppMeta.model_validate_json(text): the text is a complete object.
Parses(text) == Len(text) = Len(Dump(NoMeta)) /\ text[1] = "{" /\ text[Len(text)] = "}"

\* The record of a text that parses.
Parse(text) ==
    [app_id |-> text[2], name |-> text[3], created_at |-> text[4],
     status |-> text[5], port |-> text[6], pid |-> text[7], error |-> text[8],
     requirements_sha256 |-> text[9], app_sha256 |-> text[10]]

\* The records saved for the one app, and how many saves are made.
SavedStatus == {"starting", "running", "failed", "stopped"}
SavedMeta(status) ==
    [AppMeta("a1", "n1", 1, status, PortMin) EXCEPT
        !.requirements_sha256 = sha256_file(CreateFiles.req),
        !.app_sha256 = sha256_file(CreateFiles.app)]
MaxSaves == 3

\* The file as create_app's save has left it.
SaveInit ==
    /\ InitDisk
    /\ InitThreads
    /\ port_max = PortMax
    /\ rc = NoCmd
    /\ sv = [NoSave EXCEPT !.file = Dump(SavedMeta("starting")),
                           !.saved = {SavedMeta("starting")}]
    /\ rq = NoRequest
    /\ Elsewhere

\* _save_meta: write_text opens meta.json for writing, which empties it.
SaveOpen(meta) ==
    /\ sv.wpc = "idle"
    /\ sv.n < MaxSaves
    /\ sv' = [sv EXCEPT !.wpc = "opened", !.wtext = Dump(meta), !.file = <<>>,
                        !.saved = sv.saved \cup {meta}, !.n = sv.n + 1]
    /\ UNCHANGED <<manager, port_max, rc, rq, ws, ts, call>>

\* write_text writes the text, in one piece or (a text longer than the
\* buffer) a first piece of it.
SaveWrite(whole) ==
    /\ sv.wpc = "opened"
    /\ sv' = IF whole
             THEN [sv EXCEPT !.file = sv.wtext, !.wpc = "idle"]
             ELSE [sv EXCEPT !.file = SubSeq(sv.wtext, 1, Len(sv.wtext) \div 2),
                             !.wpc = "half"]
    /\ UNCHANGED <<manager, port_max, rc, rq, ws, ts, call>>

\* write_text writes the rest and closes the file.
SaveRest ==
    /\ sv.wpc = "half"
    /\ sv' = [sv EXCEPT !.file = sv.wtext, !.wpc = "idle"]
    /\ UNCHANGED <<manager, port_max, rc, rq, ws, ts, call>>

\* _load_meta: meta_path.exists().
LoadExists ==
    /\ sv.rpc \in {"idle", "done"}
    /\ sv' = [sv EXCEPT !.rpc = "read", !.text = <<>>, !.got = "none"]
    /\ UNCHANGED <<manager, port_max, rc, rq, ws, ts, call>>

\* _load_meta: meta_path.read_text().
LoadRead ==
    /\ sv.rpc = "read"
    /\ sv' = [sv EXCEPT !.rpc = "parse", !.text = sv.file]
    /\ UNCHANGED <<manager, port_max, rc, rq, ws, ts, call>>

\* _load_meta: AppMeta.model_validate_json, which raises ValidationError on
\* a text that is no complete object.
LoadParse ==
    /\ sv.rpc = "parse"
    /\ sv' = [sv EXCEPT !.rpc = "done",
                        !.got = IF Parses(sv.text) THEN "record"
                                ELSE "ValidationError"]
    /\ UNCHANGED <<manager, port_max, rc, rq, ws, ts, call>>

SaveNext ==
    \/ \E st \in SavedStatus : SaveOpen(SavedMeta(st))
    \/ \E whole \in BOOLEAN : SaveWrite(whole)
    \/ SaveRest
    \/ LoadExists
    \/ LoadRead
    \/ LoadParse

SaveSpec == SaveInit /\ [][SaveNext]_vars

\* ------------------------------------------------------------------ main.py, proxy.py
\* The routes that name an app: those of the API router and those of the
\* proxy under /apps/{app_id}.
ApiRoutes == {"get_app", "get_logs", "update_app", "start_app", "stop_app", "delete_app"}
ProxyRoutes == {"app_http_root", "app_http", "app_ws"}
Routes == ApiRoutes \cup ProxyRoutes

\* The exception the handler's call into the manager raises: every call
\* starts with _load_meta, and delete_app returns on its FileNotFoundError.
ManagerRaises(route, a) ==
    IF route # "delete_app" /\ ~ Exists(a) THEN "FileNotFoundError" ELSE "none"

\* The handlers with `except FileNotFoundError: raise HTTPException(404)`.
CatchesNotFound(route) ==
    route \in {"get_app", "get_logs", "update_app", "start_app", "stop_app"}

\* The ways the upstream request of proxy_http fails, as httpx raises them,
\* and the class each httpx exception class derives from.
UpstreamFailures == {"ConnectError", "ReadError", "ConnectTimeout", "ReadTimeout"}
httpx_base(e) ==
    CASE e \in {"ConnectError", "ReadError"} -> "NetworkError"
      [] e \in {"ConnectTimeout", "ReadTimeout"} -> "TimeoutException"
      [] e \in {"NetworkError", "TimeoutException"} -> "TransportError"
      [] OTHER -> "Exception"

RECURSIVE IsInstance(_, _)
IsInstance(e, cls) ==
    \/ e = cls
    \/ e # "Exception" /\ IsInstance(httpx_base(e), cls)

\* proxy_http: except httpx.ReadError, except httpx.ConnectError.
ProxyCatches(e) == IsInstance(e, "ReadError") \/ IsInstance(e, "ConnectError")

\* The requests served in a run.
MaxRequests == 2

\* The data directory holds one app, stopped or failed, and no other.
HttpInit ==
    /\ \E st \in {"stopped", "failed"} :
          metaFile = [a \in Apps |->
                        IF a = "a1" THEN SavedMeta(st) ELSE NoMeta]
    /\ dir = [a \in Apps |-> a = "a1"]
    /\ logFile = [a \in Apps |-> a = "a1"]
    /\ venv = [a \in Apps |-> a = "a1"]
    /\ reqFile = [a \in Apps |-> IF a = "a1" THEN CreateFiles.req ELSE NoFile]
    /\ appFile = [a \in Apps |-> IF a = "a1" THEN CreateFiles.app ELSE NoFile]
    /\ InitThreads
    /\ port_max = PortMax
    /\ rc = NoCmd
    /\ sv = NoSave
    /\ rq = NoRequest
    /\ Elsewhere

\* A request for app a arrives on a route; was is the record on disk at
\* that moment.
Receive(route, a) ==
    /\ rq.pc \in {"idle", "done"}
    /\ rq.n < MaxRequests
    /\ rq' = [NoRequest EXCEPT !.pc = "handler", !.route = route, !.app = a,
                               !.n = rq.n + 1, !.was = metaFile[a]]
    /\ UNCHANGED <<manager, port_max, rc, sv, ws, ts, call>>

\* The handlers that call manager.get_app (the two read routes, and the
\* proxy routes through _app_port), which reconciles the record and saves
\* it when the reconciliation changed it.
CallsGetApp(route) == route \in {"get_app", "get_logs"} \cup ProxyRoutes

\* The handler calls the manager: an exception it catches is answered 404,
\* one it does not catch leaves the handler (500, for a websocket the
\* handshake is refused); _app_port answers 404 for a record without port;
\* the API routes answer 200 and the proxy routes go on to the upstream.
Handle ==
    /\ rq.pc = "handler"
    /\ LET e == ManagerRaises(rq.route, rq.app)
           r == refresh_status(metaFile[rq.app], procs)
       IN /\ rq' = IF e # "none"
                   THEN IF CatchesNotFound(rq.route)
                        THEN [rq EXCEPT !.pc = "done", !.status = 404]
                        ELSE [rq EXCEPT !.pc = "done", !.status = 500]
                   ELSE IF rq.route \in ApiRoutes
                   THEN [rq EXCEPT !.pc = "done", !.status = 200]
                   ELSE IF r.meta.port = NoPort
                   THEN [rq EXCEPT !.pc = "done", !.status = 404]
                   ELSE [rq EXCEPT !.pc = IF rq.route = "app_ws"
                                          THEN "websocket" ELSE "upstream"]
          /\ metaFile' = IF e = "none" /\ CallsGetApp(rq.route) /\ r.save
                         THEN [metaFile EXCEPT ![rq.app] = r.meta]
                         ELSE metaFile
    /\ UNCHANGED <<dir, logFile, venv, reqFile, appFile, procs, nextPid, cl,
                   prov, minted, touched, deleted, ops>>
    /\ UNCHANGED <<port_max, rc, sv, ws, ts, call>>

\* A process listens on the port: a connection to it is not refused.
Listening(port) == \E p \in Pids : procs[p].st = "bound" /\ procs[p].port = port

\* proxy_http: client.request answers, or fails in one of the ways; a
\* failure one of the except clauses names is answered 502, another leaves
\* the handler (500).  With no process listening on the port the connection
\* is refused.
Upstream(outcome) ==
    /\ rq.pc = "upstream"
    /\ outcome = "ConnectError" \/ Listening(metaFile[rq.app].port)
    /\ rq' = [rq EXCEPT !.pc = "done", !.upstream = outcome,
                        !.status = IF outcome = "response" THEN 200
                                   ELSE IF ProxyCatches(outcome) THEN 502
                                   ELSE 500]
    /\ UNCHANGED <<manager, port_max, rc, sv, ws, ts, call>>

\* proxy_ws: the upstream connection is made and the client accepted.
Accept ==
    /\ rq.pc = "websocket"
    /\ rq' = [rq EXCEPT !.pc = "done", !.status = 101]
    /\ UNCHANGED <<manager, port_max, rc, sv, ws, ts, call>>

HttpNext ==
    \/ \E route \in Routes, a \in {"a1", Unknown} : Receive(route, a)
    \/ Handle
    \/ \E outcome \in UpstreamFailures \cup {"response"} : Upstream(outcome)
    \/ Accept

HttpSpec == HttpInit /\ [][HttpNext]_vars

\* The data directory holds one app whose provisioner has started the child
\* (pid 1) and saved the record as running; the child has not bound its
\* port yet.
StartedMeta == RunningMeta(SavedMeta("starting"), 1)
ProxyInit ==
    /\ metaFile = [a \in Apps |-> IF a = "a1" THEN StartedMeta ELSE NoMeta]
    /\ dir = [a \in Apps |-> a = "a1"]
    /\ logFile = [a \in Apps |-> a = "a1"]
    /\ venv = [a \in Apps |-> a = "a1"]
    /\ reqFile = [a \in Apps |-> IF a = "a1" THEN CreateFiles.req ELSE NoFile]
    /\ appFile = [a \in Apps |-> IF a = "a1" THEN CreateFiles.app ELSE NoFile]
    /\ procs = [p \in Pids |->
                  IF p = 1 THEN [st |-> "spawned", port |-> PortMin, app |-> "a1"]
                  ELSE NoProc]
    /\ nextPid = 2
    /\ cl = [t \in Threads |-> Idle]
    /\ prov = [s \in Slots |-> Free]
    /\ minted = {"a1"}
    /\ touched = {}
    /\ deleted = {}
    /\ ops = 0
    /\ port_max = PortMax
    /\ rc = NoCmd
    /\ sv = NoSave
    /\ rq = NoRequest
    /\ Elsewhere

\* Requests on the HTTP proxy routes, for the app and for an unknown id,
\* while the app's child binds the port, serves, or exits.
ProxyNext ==
    \/ \E route \in ProxyRoutes \ {"app_ws"}, a \in {"a1", Unknown} :
            Receive(route, a)
    \/ Handle
    \/ \E outcome \in UpstreamFailures \cup {"response"} : Upstream(outcome)
    \/ \E p \in Pids : ChildBind(p)
    \/ \E p \in Pids : ChildExit(p)

ProxySpec == ProxyInit /\ [][ProxyNext]_vars

\* ------------------------------------------------------------------ proxy_ws: the handshake
\* A header value is a string, here a sequence of characters of at most
\* MaxHeader of these; the empty one also stands for a header that is absent
\* (h_lower.get gives None, and `if subp` takes both the same way).
HeaderChars == {"x", "y", ",", " "}
MaxHeader == 4
HeaderValues == UNION {[1..n -> HeaderChars] : n \in 0..MaxHeader}

\* upstream.subprotocol: None (the empty sequence) or the name the upstream
\* selected; the proxy's own test is what keeps an unoffered one out.
NoSubprotocol == <<>>
Selected == {NoSubprotocol, <<"x">>, <<"y">>, <<"x", "y">>, <<"y", "x">>}

\* str.split(","): the pieces between the commas.
RECURSIVE split(_)
split(str) ==
    IF \E k \in 1..Len(str) : str[k] = ","
    THEN LET k == CHOOSE i \in 1..Len(str) :
                    str[i] = "," /\ \A j \in 1..(i - 1) : str[j] # ","
         IN <<SubSeq(str, 1, k - 1)>> \o split(SubSeq(str, k + 1, Len(str)))
    ELSE <<str>>

\* str.strip(): without the leading and the trailing whitespace.
RECURSIVE strip(_)
strip(str) ==
    IF str # <<>> /\ str[1] = " " THEN strip(Tail(str))
    ELSE IF str # <<>> /\ str[Len(str)] = " "
    THEN strip(SubSeq(str, 1, Len(str) - 1))
    ELSE str

\* offered_subprotocols = [s.strip() for s in subp.split(",")] if subp else []
offered_subprotocols(subp) ==
    IF subp # <<>>
    THEN [i \in 1..Len(split(subp)) |-> strip(split(subp)[i])]
    ELSE <<>>

\* Mutant of EchoesChosen: whatever the upstream selected is echoed.
EchoesAnything(chosen, offered) == chosen # NoSubprotocol

\* proxy_ws: `if chosen and chosen in offered_subprotocols`.
EchoesChosen(chosen, offered) ==
    /\ chosen # NoSubprotocol
    /\ \E i \in 1..Len(offered) : offered[i] = chosen

\* The client's upgrade request arrives with its Sec-WebSocket-Protocol.
ClientUpgrade(subp) ==
    /\ call = NoCall
    /\ call' = [fn |-> "proxy_ws", pc |-> "connect", subp |-> subp,
                chosen |-> NoSubprotocol, accepted |-> NoSubprotocol]
    /\ UNCHANGED <<manager, port_max, rc, sv, rq, ws, ts>>

\* websockets.connect: the upstream handshake completes with its choice.
UpstreamHandshake(chosen) ==
    /\ call.fn = "proxy_ws" /\ call.pc = "connect"
    /\ call' = [call EXCEPT !.pc = "accept", !.chosen = chosen]
    /\ UNCHANGED <<manager, port_max, rc, sv, rq, ws, ts>>

\* websocket.accept(subprotocol=chosen), or websocket.accept().
AcceptClient ==
    /\ call.fn = "proxy_ws" /\ call.pc = "accept"
    /\ call' = [call EXCEPT
                  !.pc = "accepted",
                  !.accepted =
                      IF EchoesChosen(call.chosen, offered_subprotocols(call.subp))
                      THEN call.chosen ELSE NoSubprotocol]
    /\ UNCHANGED <<manager, port_max, rc, sv, rq, ws, ts>>

HandshakeNext ==
    \/ \E subp \in HeaderValues : ClientUpgrade(subp)
    \/ \E chosen \in Selected : UpstreamHandshake(chosen)
    \/ AcceptClient

HandshakeSpec == Init /\ [][HandshakeNext]_vars

\* ------------------------------------------------------------------ proxy_ws: the relay
\* A frame on the wire: its kind and its payload.  Each side sends at most
\* MaxFrames of them in a session.
Payloads == {"", "a"}
Frames == [kind : {"text", "binary"}, data : Payloads]
MaxFrames == 2

\* What websocket.receive() gives for a frame of the client: a dict with the
\* payload under "text" or under "bytes", the other key absent or None (the
\* empty set here).  The message of a disconnect.
Received(f) ==
    [type |-> "websocket.receive",
     text |-> IF f.kind = "text" THEN {f.data} ELSE {},
     bytes |-> IF f.kind = "binary" THEN {f.data} ELSE {}]
Disconnect == [type |-> "websocket.disconnect", text |-> {}, bytes |-> {}]

\* What iterating the upstream connection gives for a frame: a str for a
\* text frame, bytes for a binary one.
Message(f) == [py |-> IF f.kind = "text" THEN "str" ELSE "bytes", val |-> f.data]

\* _client_to_upstream: upstream.send(msg["text"]) sends a text frame,
\* upstream.send(msg["bytes"]) a binary one; a message with neither sends
\* nothing.
ToUpstream(msg) ==
    IF msg.text # {}
    THEN <<[kind |-> "text", data |-> CHOOSE d \in msg.text : TRUE]>>
    ELSE IF msg.bytes # {}
    THEN <<[kind |-> "binary", data |-> CHOOSE d \in msg.bytes : TRUE]>>
    ELSE <<>>

\* Mutant of ToClient: every message is sent with send_text.
ToClientAsText(m) == [kind |-> "text", data |-> m.val]

\* _upstream_to_client: send_bytes for bytes and bytearray, send_text(str(m))
\* for the rest.
ToClient(m) ==
    IF m.py = "bytes" THEN [kind |-> "binary", data |-> m.val]
    ELSE [kind |-> "text", data |-> m.val]

Running == {"recv", "send"}

\* proxy_ws has accepted the client and created its two tasks.
WsOpen ==
    /\ ws = NoSession
    /\ ws' = [pc |-> "wait", client |-> "open", upstream |-> "open",
              cSent |-> <<>>, cIn |-> <<>>, uGot |-> <<>>,
              uSent |-> <<>>, uIn |-> <<>>, cGot |-> <<>>,
              c2u |-> "recv", c2uMsg |-> Disconnect,
              u2c |-> "recv", u2cMsg |-> Message([kind |-> "text", data |-> ""])]
    /\ UNCHANGED <<manager, port_max, rc, sv, rq, ts, call>>

\* The client sends a frame.
ClientSends(f) ==
    /\ ws.pc # "none" /\ ws.client = "open"
    /\ Len(ws.cSent) < MaxFrames
    /\ ws' = [ws EXCEPT !.cSent = Append(ws.cSent, f),
                        !.cIn = Append(ws.cIn, Received(f))]
    /\ UNCHANGED <<manager, port_max, rc, sv, rq, ts, call>>

\* The client closes its connection.
ClientDisconnects ==
    /\ ws.pc # "none" /\ ws.client = "open"
    /\ ws' = [ws EXCEPT !.client = "closed", !.cIn = Append(ws.cIn, Disconnect)]
    /\ UNCHANGED <<manager, port_max, rc, sv, rq, ts, call>>

\* The upstream sends a frame.
UpstreamSends(f) ==
    /\ ws.pc # "none" /\ ws.upstream = "open"
    /\ Len(ws.uSent) < MaxFrames
    /\ ws' = [ws EXCEPT !.uSent = Append(ws.uSent, f),
                        !.uIn = Append(ws.uIn, Message(f))]
    /\ UNCHANGED <<manager, port_max, rc, sv, rq, ts, call>>

\* The upstream closes its connection.
UpstreamCloses ==
    /\ ws.pc # "none" /\ ws.upstream = "open"
    /\ ws' = [ws EXCEPT !.upstream = "closed"]
    /\ UNCHANGED <<manager, port_max, rc, sv, rq, ts, call>>

\* _client_to_upstream: msg = await websocket.receive(); a disconnect ends
\* the loop.
C2URecv ==
    /\ ws.pc # "none" /\ ws.c2u = "recv"
    /\ ws.cIn # <<>>
    /\ ws' = IF Head(ws.cIn).type = "websocket.disconnect"
             THEN [ws EXCEPT !.c2u = "done", !.cIn = Tail(ws.cIn)]
             ELSE [ws EXCEPT !.c2u = "send", !.c2uMsg = Head(ws.cIn),
                             !.cIn = Tail(ws.cIn)]
    /\ UNCHANGED <<manager, port_max, rc, sv, rq, ts, call>>

\* _client_to_upstream: await upstream.send(...), which raises on a closed
\* connection; `except Exception: pass` ends the loop.
C2USend ==
    /\ ws.pc # "none" /\ ws.c2u = "send"
    /\ ws' = IF ws.upstream = "open"
             THEN [ws EXCEPT !.c2u = "recv",
                             !.uGot = ws.uGot \o ToUpstream(ws.c2uMsg)]
             ELSE [ws EXCEPT !.c2u = "done"]
    /\ UNCHANGED <<manager, port_max, rc, sv, rq, ts, call>>

\* _upstream_to_client: `async for m in upstream`, which ends when the
\* connection is closed and its messages are read.
U2CRecv ==
    /\ ws.pc # "none" /\ ws.u2c = "recv"
    /\ ws.uIn # <<>> \/ ws.upstream # "open"
    /\ ws' = IF ws.uIn # <<>>
             THEN [ws EXCEPT !.u2c = "send", !.u2cMsg = Head(ws.uIn),
                             !.uIn = Tail(ws.uIn)]
             ELSE [ws EXCEPT !.u2c = "done"]
    /\ UNCHANGED <<manager, port_max, rc, sv, rq, ts, call>>

\* _upstream_to_client: await websocket.send_bytes / send_text; on a client
\* that has disconnected the send raises (raised) or is dropped by the
\* server.
U2CSend(raised) ==
    /\ ws.pc # "none" /\ ws.u2c = "send"
    /\ ws.client = "open" => ~ raised
    /\ ws' = IF ws.client = "open"
             THEN [ws EXCEPT !.u2c = "recv",
                             !.cGot = Append(ws.cGot, ToClient(ws.u2cMsg))]
             ELSE IF raised THEN [ws EXCEPT !.u2c = "done"]
             ELSE [ws EXCEPT !.u2c = "recv"]
    /\ UNCHANGED <<manager, port_max, rc, sv, rq, ts, call>>

\* Mutant of Cancelled: the pending task is left running.
NotCancelled(task) == task

\* Task.cancel() of a task that has not finished.
Cancelled(task) == IF task \in Running THEN "cancelled" ELSE task

\* proxy_ws: asyncio.wait(..., FIRST_COMPLETED) returns, the pending task
\* is cancelled.
WaitFirst ==
    /\ ws.pc = "wait"
    /\ ws.c2u = "done" \/ ws.u2c = "done"
    /\ ws' = [ws EXCEPT !.pc = "exit", !.c2u = Cancelled(ws.c2u),
                        !.u2c = Cancelled(ws.u2c)]
    /\ UNCHANGED <<manager, port_max, rc, sv, rq, ts, call>>

\* proxy_ws leaves `async with websockets.connect(...)`, which closes the
\* upstream connection.
ExitConnect ==
    /\ ws.pc = "exit"
    /\ ws' = [ws EXCEPT !.pc = "return", !.upstream = "closed"]
    /\ UNCHANGED <<manager, port_max, rc, sv, rq, ts, call>>

\* proxy_ws and app_ws return; the server closes the connection of a
\* websocket handler that has returned.
WsReturn ==
    /\ ws.pc = "return"
    /\ ws' = [ws EXCEPT !.pc = "returned", !.client = "closed",
                        !.cIn = IF ws.client = "open"
                                THEN Append(ws.cIn, Disconnect) ELSE ws.cIn]
    /\ UNCHANGED <<manager, port_max, rc, sv, rq, ts, call>>

WsNext ==
    \/ WsOpen
    \/ \E f \in Frames : ClientSends(f)
    \/ ClientDisconnects
    \/ \E f \in Frames : UpstreamSends(f)
    \/ UpstreamCloses
    \/ C2URecv
    \/ C2USend
    \/ U2CRecv
    \/ \E raised \in BOOLEAN : U2CSend(raised)
    \/ WaitFirst
    \/ ExitConnect
    \/ WsReturn

\* The event loop runs every task that can run; the peers send and close
\* as they like.
WsSpec ==
    /\ Init
    /\ [][WsNext]_vars
    /\ WF_vars(WsOpen)
    /\ WF_vars(C2URecv)
    /\ WF_vars(C2USend)
    /\ WF_vars(U2CRecv)
    /\ WF_vars(\E raised \in BOOLEAN : U2CSend(raised))
    /\ WF_vars(WaitFirst)
    /\ WF_vars(ExitConnect)
    /\ WF_vars(WsReturn)

\* ------------------------------------------------------------------ tail_logs
\* The text of run.log is a sequence of characters; the newline, and one
\* character per line that stands for the line's text.
Newline == 0

\* run.log after n lines were written, the last one with or without its
\* newline (the child writes at its own pace); logs of up to MaxLog lines.
RECURSIVE LogText(_, _)
LogText(n, torn) ==
    IF n = 0 THEN <<>>
    ELSE LogText(n - 1, FALSE) \o (IF torn THEN <<n>> ELSE <<n, Newline>>)
MaxLog == 60
LogLengths == {0, 1, 2, 3, MaxLog}

\* The values of the query parameter tail (an int with default 200).
Tails == {-2, -1, 0, 1, 2, 10, 49, 50, 51, 100, 200, 5000, 6000}

\* str.splitlines(): the lines, without their newlines.
RECURSIVE splitlines(_)
splitlines(text) ==
    IF text = <<>> THEN <<>>
    ELSE IF \E k \in 1..Len(text) : text[k] = Newline
    THEN LET k == CHOOSE i \in 1..Len(text) :
                    text[i] = Newline /\ \A j \in 1..(i - 1) : text[j] # Newline
         IN <<SubSeq(text, 1, k - 1)>> \o splitlines(SubSeq(text, k + 1, Len(text)))
    ELSE <<text>>

\* "\n".join(lines)
RECURSIVE join(_)
join(lines) ==
    IF lines = <<>> THEN <<>>
    ELSE IF Len(lines) = 1 THEN lines[1]
    ELSE lines[1] \o <<Newline>> \o join(Tail(lines))

\* lines[start:], as Python slices: a negative start counts from the end,
\* and the start is clipped to the list.
SliceFrom(lines, start) ==
    LET n == Len(lines)
        from == IF start < 0
                THEN (IF n + start < 0 THEN 0 ELSE n + start)
                ELSE (IF start > n THEN n ELSE start)
    IN SubSeq(lines, from + 1, n)

\* tail_logs(app_id, tail) on a log that exists: "\n".join(lines[-tail:]).
tail_logs(text, tail) == join(SliceFrom(splitlines(text), 0 - tail))

\* GET /api/apps/{id}/logs?tail=N arrives for an app with a log.
LogsRequested(n, torn, tail) ==
    /\ call = NoCall
    /\ call' = [fn |-> "tail_logs", pc |-> "call", text |-> LogText(n, torn),
                tail |-> tail, logs |-> <<>>]
    /\ UNCHANGED <<manager, port_max, rc, sv, rq, ws, ts>>

\* get_logs: manager.tail_logs(app_id, tail=tail).
TailLogs ==
    /\ call.fn = "tail_logs" /\ call.pc = "call"
    /\ call' = [call EXCEPT !.pc = "done",
                            !.logs = tail_logs(call.text, call.tail)]
    /\ UNCHANGED <<manager, port_max, rc, sv, rq, ws, ts>>

TailNext ==
    \/ \E n \in LogLengths, torn \in BOOLEAN, tail \in Tails :
            LogsRequested(n, torn, tail)
    \/ TailLogs

TailSpec == Init /\ [][TailNext]_vars

\* ------------------------------------------------------------------ updated_at
\* The threads that save the record of one app (request threads and
\* provisioner threads; nothing but the allocator is under a lock), and the
\* number of saves in a run.
Savers == Threads \cup Slots
MaxStamps == 4

\* datetime.utcnow(): every reading is taken to be later than the one
\* before it.
utcnow(clock) == clock + 1

\* create_app: AppMeta(...) reads the clock for created_at and for
\* updated_at, _save_meta reads it again for updated_at and writes.
CreateStamped ==
    /\ ts = NoStamps
    /\ LET created_at == utcnow(0)
           updated_at == utcnow(utcnow(created_at))
       IN ts' = [pc |-> "saved", clock |-> updated_at,
                 file |-> [created_at |-> created_at, updated_at |-> updated_at],
                 held |-> [k \in Savers |-> 0], n |-> 0]
    /\ UNCHANGED <<manager, port_max, rc, sv, rq, ws, call>>

\* _save_meta: meta.updated_at = datetime.utcnow()
Stamp(k) ==
    /\ ts.pc = "saved"
    /\ ts.held[k] = 0
    /\ ts.n < MaxStamps
    /\ ts' = [ts EXCEPT !.clock = utcnow(ts.clock),
                        !.held[k] = utcnow(ts.clock), !.n = ts.n + 1]
    /\ UNCHANGED <<manager, port_max, rc, sv, rq, ws, call>>

\* _save_meta: meta_path.write_text(meta.model_dump_json(...)); created_at
\* is the one every copy of the record carries.
WriteStamped(k) ==
    /\ ts.pc = "saved"
    /\ ts.held[k] # 0
    /\ ts' = [ts EXCEPT !.file.updated_at = ts.held[k], !.held[k] = 0]
    /\ UNCHANGED <<manager, port_max, rc, sv, rq, ws, call>>

StampNext ==
    \/ CreateStamped
    \/ \E k \in Savers : Stamp(k)
    \/ \E k \in Savers : WriteStamped(k)

StampSpec == Init /\ [][StampNext]_vars

\* ------------------------------------------------------------------ proxy_http: the request headers
\* HOP_BY_HOP_HEADERS
HOP_BY_HOP_HEADERS ==
    {"connection", "keep-alive", "proxy-authenticate", "proxy-authorization",
     "te", "trailers", "transfer-encoding", "upgrade", "host", "content-length"}

\* str.lower() of a header name.
lower(name) ==
    CASE name = "Host" -> "host"
      [] name = "X-Forwarded-Host" -> "x-forwarded-host"
      [] name = "X-Forwarded-Port" -> "x-forwarded-port"
      [] name = "X-Forwarded-Proto" -> "x-forwarded-proto"
      [] name = "Accept-Encoding" -> "accept-encoding"
      [] OTHER -> name

\* The headers of a request as the server hands them over in
\* request.scope["headers"]: the names in lower case.  A request has its
\* Host header, with or without a port, and any of the others.
HostValues == {<<"ext">>, <<"ext", ":", "8080">>}
ClientOptional ==
    {[name |-> "connection", value |-> <<"keep-alive">>],
     [name |-> "content-length", value |-> <<"0">>],
     [name |-> "accept-encoding", value |-> <<"gzip">>],
     [name |-> "x-forwarded-host", value |-> <<"other">>],
     [name |-> "cookie", value |-> <<"c">>]}
ClientHeaders ==
    {{[name |-> "host", value |-> h]} \cup hs :
        h \in HostValues, hs \in SUBSET ClientOptional}

\* A dict of headers is a set of entries with distinct keys; keys differ
\* when their spelling differs.  d[k] = v, and d.pop(k, None).
DictSet(d, k, v) == {e \in d : e.name # k} \cup {[name |-> k, value |-> v]}
DictPop(d, k) == {e \in d : e.name # k}

\* _filter_headers(headers): the entries whose lower-cased name is not hop
\* by hop, under the name as received.
filter_headers(headers) == {e \in headers : lower(e.name) \notin HOP_BY_HOP_HEADERS}

\* request.headers.get("host")
HeaderGet(headers, name) ==
    IF \E e \in headers : lower(e.name) = name
    THEN (CHOOSE e \in headers : lower(e.name) = name).value
    ELSE <<>>

\* external_host.split(":", 1)[1]
AfterColon(host) ==
    LET k == CHOOSE i \in 1..Len(host) :
                host[i] = ":" /\ \A j \in 1..(i - 1) : host[j] # ":"
    IN SubSeq(host, k + 1, Len(host))

\* proxy_http: the headers it passes to client.request, from the filtered
\* ones: Host and X-Forwarded-* for the external host, the scheme, and
\* Accept-Encoding: identity.
inject_headers(filtered, external_host, scheme) ==
    LET hosted ==
            IF external_host # <<>>
            THEN LET h1 == DictPop(DictPop(filtered, "host"), "Host")
                     h2 == DictSet(h1, "Host", external_host)
                     h3 == DictSet(h2, "X-Forwarded-Host", external_host)
                 IN IF \E i \in 1..Len(external_host) : external_host[i] = ":"
                    THEN DictSet(h3, "X-Forwarded-Port", AfterColon(external_host))
                    ELSE h3
            ELSE filtered
        proto == DictSet(hosted, "X-Forwarded-Proto", <<scheme>>)
    IN DictSet(proto, "Accept-Encoding", <<"identity">>)

\* A request arrives at proxy_http with its headers.
HeadersReceived(headers) ==
    /\ call = NoCall
    /\ call' = [fn |-> "proxy_http", pc |-> "filter", client |-> headers,
                req_headers |-> {}]
    /\ UNCHANGED <<manager, port_max, rc, sv, rq, ws, ts>>

\* req_headers = _filter_headers(request.scope.get("headers", []))
FilterHeaders ==
    /\ call.fn = "proxy_http" /\ call.pc = "filter"
    /\ call' = [call EXCEPT !.pc = "inject",
                            !.req_headers = filter_headers(call.client)]
    /\ UNCHANGED <<manager, port_max, rc, sv, rq, ws, ts>>

\* The injections, and client.request(headers=req_headers), which sends
\* one header line for every key of the dict.
SendUpstream ==
    /\ call.fn = "proxy_http" /\ call.pc = "inject"
    /\ call' = [call EXCEPT
                  !.pc = "sent",
                  !.req_headers = inject_headers(call.req_headers,
                                      HeaderGet(call.client, "host"), "http")]
    /\ UNCHANGED <<manager, port_max, rc, sv, rq, ws, ts>>

HeadersNext ==
    \/ \E headers \in ClientHeaders : HeadersReceived(headers)
    \/ FilterHeaders
    \/ SendUpstream

HeadersSpec == Init /\ [][HeadersNext]_vars

\* ------------------------------------------------------------------ run_all: shutdown
\* The two processes run_all.main starts: the API (uvicorn with main:app,
\* the process that holds the AppManager) and the admin console.
ControlProcs == {"api", "admin"}

\* run_all.main after its two Popen calls: both processes run, the loop
\* polls them.
Serving ==
    [fn |-> "run_all", pc |-> "serving", via |-> "none",
     st |-> [p \in ControlProcs |-> "alive"]]

\* The record of the k-th app created, once its provisioner has started the
\* child with pid k and saved the record as running.
ServedMeta(k) ==
    [StartedMeta EXCEPT !.app_id = Minted[k], !.created_at = k,
                        !.port = PortMin + k - 1, !.pid = k]

\* The control plane serves two apps, whose children the provisioners have
\* started in sessions of their own (preexec_fn = os.setsid).
ShutdownInit ==
    /\ metaFile = [a \in Apps |->
                     IF \E k \in 1..2 : a = Minted[k]
                     THEN ServedMeta(CHOOSE k \in 1..2 : a = Minted[k])
                     ELSE NoMeta]
    /\ dir = [a \in Apps |-> a # Unknown]
    /\ logFile = [a \in Apps |-> a # Unknown]
    /\ venv = [a \in Apps |-> a # Unknown]
    /\ reqFile = [a \in Apps |-> IF a # Unknown THEN CreateFiles.req ELSE NoFile]
    /\ appFile = [a \in Apps |-> IF a # Unknown THEN CreateFiles.app ELSE NoFile]
    /\ procs = [p \in Pids |->
                  [st |-> "spawned", port |-> PortMin + p - 1, app |-> Minted[p]]]
    /\ nextPid = 3
    /\ cl = [t \in Threads |-> Idle]
    /\ prov = [s \in Slots |-> Free]
    /\ minted = {Minted[1], Minted[2]}
    /\ touched = {}
    /\ deleted = {}
    /\ ops = 0
    /\ port_max = PortMax
    /\ rc = NoCmd
    /\ sv = NoSave
    /\ rq = NoRequest
    /\ ws = NoSession
    /\ ts = NoStamps
    /\ call = Serving

\* SIGTERM or SIGINT reaches run_all: the handler _terminate runs, and the
\* polling loop goes on when it returns.
SignalArrives ==
    /\ call.fn = "run_all" /\ call.pc = "serving"
    /\ call' = [call EXCEPT !.pc = "terminate", !.via = "signal"]
    /\ UNCHANGED <<manager, port_max, rc, sv, rq, ws, ts>>

\* The loop of main finds that one of the two processes has exited and
\* calls _terminate before it returns.
PollExited ==
    /\ call.fn = "run_all" /\ call.pc = "serving"
    /\ \E p \in ControlProcs : call.st[p] = "exited"
    /\ call' = [call EXCEPT !.pc = "terminate", !.via = "poll"]
    /\ UNCHANGED <<manager, port_max, rc, sv, rq, ws, ts>>

\* One of the two processes exits: by itself, or at the end of the
\* shutdown SIGTERM asked it for.  main.py registers nothing that runs when
\* the API shuts down, and the app children are in sessions of their own:
\* the exit of the API leaves them as they are.
ProcExits(p) ==
    /\ call.fn = "run_all"
    /\ call.st[p] \in {"alive", "terminating"}
    /\ call' = [call EXCEPT !.st[p] = "exited"]
    /\ UNCHANGED <<manager, port_max, rc, sv, rq, ws, ts>>

\* _terminate: p.terminate() for the two processes.
TerminateAll ==
    /\ call.fn = "run_all" /\ call.pc = "terminate"
    /\ call' = [call EXCEPT
                  !.pc = "wait",
                  !.st = [p \in ControlProcs |->
                            IF call.st[p] = "alive" THEN "terminating"
                            ELSE call.st[p]]]
    /\ UNCHANGED <<manager, port_max, rc, sv, rq, ws, ts>>

\* _terminate: the wait of five seconds at most for the two to exit.
WaitDone(expired) ==
    /\ call.fn = "run_all" /\ call.pc = "wait"
    /\ expired \/ \A p \in ControlProcs : call.st[p] = "exited"
    /\ call' = [call EXCEPT !.pc = "kill"]
    /\ UNCHANGED <<manager, port_max, rc, sv, rq, ws, ts>>

\* _terminate: p.kill() for those that still run; then the handler returns
\* to the loop, or main returns the exit code.
KillRest ==
    /\ call.fn = "run_all" /\ call.pc = "kill"
    /\ call' = [call EXCEPT
                  !.pc = IF call.via = "poll" THEN "returned" ELSE "serving",
                  !.st = [p \in ControlProcs |-> "exited"]]
    /\ UNCHANGED <<manager, port_max, rc, sv, rq, ws, ts>>

\* The shutdown of the control plane, while the apps' children bind their
\* ports, serve, or exit by themselves.
ShutdownNext ==
    \/ SignalArrives
    \/ PollExited
    \/ \E p \in ControlProcs : ProcExits(p)
    \/ TerminateAll
    \/ \E expired \in BOOLEAN : WaitDone(expired)
    \/ KillRest
    \/ \E p \in Pids : ChildBind(p)
    \/ \E p \in Pids : ChildExit(p)

ShutdownSpec == ShutdownInit /\ [][ShutdownNext]_vars

\* ------------------------------------------------------------------ restart of the control plane
\* main.py builds the AppManager when the API process starts: boots counts
\* the starts of that process.
Booted(n) == [fn |-> "main", boots |-> n]

\* The first start, on an empty data directory.
RestartInit ==
    /\ InitDisk
    /\ InitThreads
    /\ port_max = PortMax
    /\ rc = NoCmd
    /\ sv = NoSave
    /\ rq = NoRequest
    /\ ws = NoSession
    /\ ts = NoStamps
    /\ call = Booted(1)

\* The API process is stopped and started again: its request threads and
\* its provisioner threads (daemon threads) are gone, AppManager.__init__
\* reads no record and starts no thread; the data directory is as it was,
\* and so are the children, which run in sessions of their own.
Restart ==
    /\ call = Booted(1)
    /\ call' = Booted(2)
    /\ cl' = [t \in Threads |-> Idle]
    /\ prov' = [s \in Slots |-> Free]
    /\ FsUnchanged
    /\ UNCHANGED <<procs, nextPid, minted, touched, deleted, ops>>
    /\ UNCHANGED <<port_max, rc, sv, rq, ws, ts>>

\* Apps are created and read (get, list) while their provisioners run, and
\* the control plane is restarted once.
RestartNext ==
    \/ \E t \in Threads, n \in CreateNames : create_app(t, n)
    \/ \E t \in Threads, a \in Known : GetBegin(t, a)
    \/ \E t \in Threads : GetRefresh(t)
    \/ \E t \in Threads : ListBegin(t)
    \/ \E t \in Threads, a \in Apps : ListLoad(t, a)
    \/ \E t \in Threads : ListRefresh(t)
    \/ \E s \in Slots : ProvLoad(s)
    \/ \E s \in Slots : ProvPort(s)
    \/ \E s \in Slots, ok \in BOOLEAN : ProvVenv(s, ok)
    \/ \E s \in Slots, ok \in BOOLEAN : ProvInstall(s, ok)
    \/ \E s \in Slots : ProvSpawn(s)
    \/ \E p \in Pids : ChildBind(p)
    \/ \E p \in Pids : ChildExit(p)
    \/ Restart

\* The request threads and the provisioner threads are scheduled fairly,
\* and every command a provisioner runs ends.
RestartSpec ==
    /\ RestartInit
    /\ [][RestartNext]_vars
    /\ WF_vars(\E t \in Threads : GetRefresh(t))
    /\ WF_vars(\E t \in Threads, a \in Apps : ListLoad(t, a))
    /\ WF_vars(\E t \in Threads : ListRefresh(t))
    /\ WF_vars(\E s \in Slots : ProvLoad(s))
    /\ WF_vars(\E s \in Slots : ProvPort(s))
    /\ WF_vars(\E s \in Slots, ok \in BOOLEAN : ProvVenv(s, ok))
    /\ WF_vars(\E s \in Slots, ok \in BOOLEAN : ProvInstall(s, ok))
    /\ WF_vars(\E s \in Slots : ProvSpawn(s))

\* ------------------------------------------------------------------ stop_app, whole
\* stop_app run from its load to its save with no other thread in between:
\* the record it saves and the process table it leaves.
stop_app(meta, ps) ==
    LET r == refresh_status(meta, ps).meta
    IN IF r.pid # NoPid
       THEN [meta |-> StoppedMeta(ClearPid(r)), procs |-> kill_pid_tree(ps, r.pid)]
       ELSE [meta |-> StoppedMeta(r), procs |-> ps]

\* The pids of the live child processes.
LivePids(ps) == {p \in Pids : IsLive(ps, p)}

\* ------------------------------------------------------------------ claims
Live(a) == metaFile[a].status \in {"starting", "running"}

\* A request thread is between the first read and the last write of a
\* mutating operation on app a; a provisioner thread is.
ClientIn(t, a) ==
    /\ cl[t].pc # "idle"
    /\ cl[t].op \in {"start", "stop", "update", "delete"}
    /\ cl[t].app = a
ProvIn(s, a) == prov[s].pc \in {"port", "venv", "install", "spawn"} /\ prov[s].app = a

\* C1: any two distinct app records whose status is starting or running
\* have different ports.
C1_DistinctPorts ==
    \A a, b \in Apps :
        (a # b /\ Live(a) /\ Live(b)) => metaFile[a].port # metaFile[b].port

\* C2: for one app id no two mutating operations (request handlers and
\* provisioner bodies) are in progress at the same time.
C2_Serialized ==
    \A a \in Apps :
        /\ \A t, u \in Threads : (ClientIn(t, a) /\ ClientIn(u, a)) => t = u
        /\ \A s, r \in Slots : (ProvIn(s, a) /\ ProvIn(r, a)) => s = r
        /\ \A t \in Threads, s \in Slots : ~ (ClientIn(t, a) /\ ProvIn(s, a))

\* The records a get or list request returned.
Returned(t) ==
    IF cl[t].pc = "idle" /\ cl[t].op \in {"get", "list"} /\ cl[t].ret = "ok"
    THEN {cl[t].out[i] : i \in 1..Len(cl[t].out)}
    ELSE {}

\* C3: every record get or list returns with status running has its pid
\* set, and the process with that pid was alive (existing, not a zombie)
\* when the request's reconciliation looked at it.
C3_RunningIsLive ==
    \A t \in Threads : \A m \in Returned(t) :
        m.status = "running" => (m.pid # NoPid /\ m.pid \in cl[t].live)

\* C3 witness: a get has returned a running record, and a list has returned
\* a record that reconciliation demoted because its process had died.
C3_Witness ==
    /\ \E t \in Threads : cl[t].op = "get" /\
          \E m \in Returned(t) : m.status = "running"
    /\ \E t \in Threads : cl[t].op = "list" /\
          \E m \in Returned(t) :
             /\ m.status = "stopped"
             /\ \E p \in Pids : procs[p].app = m.app_id /\ procs[p].st = "zombie"

\* C4: a persisted record with status stopped has no pid.
C4_StoppedNoPid ==
    \A a \in Apps : metaFile[a].status = "stopped" => metaFile[a].pid = NoPid

\* C4 witness: a stop killed the app's process and persisted stopped while
\* a provisioner that loaded the record earlier is still to persist it.
C4_Witness ==
    \E a \in Apps :
        /\ metaFile[a].status = "stopped"
        /\ \E p \in Pids : procs[p].app = a /\ procs[p].st = "gone"
        /\ \E s \in Slots : ProvIn(s, a)

\* C5: a persisted record with status starting or running has its port set.
C5_LivePortSet ==
    \A a \in Apps : Live(a) => metaFile[a].port \in Ports

\* C5 witness: records persisted as starting by start and by update, and one
\* persisted as running by the provisioner.
C5_Witness ==
    /\ \E t \in Threads :
          /\ cl[t].op = "start" /\ cl[t].pc = "idle" /\ cl[t].ret = "ok"
          /\ metaFile[cl[t].app] = cl[t].out[1]
          /\ cl[t].out[1].status = "starting"
    /\ \E a \in Apps : metaFile[a].status = "running"

\* A get returned a record of an app that no stop, update or delete was
\* issued for since its create.
ImmediateGet(t) ==
    /\ cl[t].pc = "idle" /\ cl[t].op = "get" /\ cl[t].ret = "ok"
    /\ cl[t].fresh

\* C6: a get right after create, with no stop, update or delete in
\* between, returns status starting, running or failed.
C6_ImmediateGet ==
    \A t \in Threads :
        ImmediateGet(t) => cl[t].out[1].status \in {"starting", "running", "failed"}

\* The child process spawned for app a has exited.
ChildExited(a) == \E p \in Pids : procs[p].app = a /\ procs[p].st = "zombie"

\* C6 amended: a get right after create, with no stop, update or delete in
\* between, returns status starting, running, failed or stopped, never
\* created, and stopped only when the app's child process has exited.
C6_ImmediateGetAmended ==
    \A t \in Threads :
        ImmediateGet(t) =>
            /\ cl[t].out[1].status \in {"starting", "running", "failed", "stopped"}
            /\ cl[t].out[1].status = "stopped" => ChildExited(cl[t].app)

\* C6 witness: such a get returned stopped after the child had exited.
C6_Witness ==
    \E t \in Threads :
        /\ ImmediateGet(t)
        /\ cl[t].out[1].status = "stopped"
        /\ ChildExited(cl[t].app)

\* C7: once delete(id) has returned, get(id) finds no record (NotFound).
C7_DeletedNotFound == \A a \in deleted : ~ Exists(a)

\* No request and no provisioner is at work for app a.
Quiet(a) ==
    /\ \A t \in Threads : cl[t].pc = "idle" \/ cl[t].app # a
    /\ \A s \in Slots : prov[s].pc = "free" \/ prov[s].app # a

\* C8: after create then delete, once the background work has finished,
\* apps/<id>/ does not exist and holds no files.
C8_DeleteLeavesNothing ==
    \A a \in deleted :
        Quiet(a) => (~ dir[a] /\ ~ Exists(a) /\ ~ logFile[a] /\ ~ venv[a])

\* C9: stop is idempotent: a second stop right after a stop does not fail
\* and leaves the same record (status stopped, pid absent, same port, error
\* and name) and the same live child processes as the first.
C9_StopIdempotent ==
    \A a \in Apps :
        Exists(a) =>
            LET once == stop_app(metaFile[a], procs)
                twice == stop_app(once.meta, once.procs)
            IN /\ once.meta.status = "stopped" /\ once.meta.pid = NoPid
               /\ twice.meta = once.meta
               /\ LivePids(twice.procs) = LivePids(once.procs)

\* C9 witness: a stop is about to save a record that an earlier stop, which
\* killed the app's process, had already persisted as stopped.
C9_Witness ==
    \E t \in Threads :
        /\ cl[t].op = "stop" /\ cl[t].pc = "stop_save"
        /\ cl[t].smeta = metaFile[cl[t].app]
        /\ cl[t].smeta.status = "stopped"
        /\ \E p \in Pids : procs[p].app = cl[t].app /\ procs[p].st = "gone"

\* C10: a start gets past its guard (to the save and the dispatch of a
\* provisioner) only when the reconciled status is failed or stopped; a
\* start on an app in status starting is rejected.
C10_StartGuard ==
    \A t \in Threads :
        cl[t].pc = "start_save" => cl[t].meta.status \in {"failed", "stopped"}

\* start_app's reconciliation of the record thread t loaded.
StartReconciled(t) == refresh_status(cl[t].meta, procs)

\* Thread t takes start_app's step after the load, and the reconciled record
\* is running with a live pid.
StartOnRunning(t) ==
    /\ cl[t].pc = "start_refresh"
    /\ cl'[t] # cl[t]
    /\ StartReconciled(t).meta.status = "running"
    /\ IsLive(procs, StartReconciled(t).meta.pid)

\* C11: start on an app whose reconciled status is running with a live pid
\* is a no-op: the request ends there and returns the reconciled record,
\* whose pid, port and error are the loaded ones; the record on disk is
\* written by the reconciliation only, the processes are left as they are
\* and no provisioner is dispatched.
C11_StartNoOp ==
    [][\A t \in Threads :
          StartOnRunning(t) =>
            LET r == StartReconciled(t)
                a == cl[t].app
            IN /\ cl'[t].pc = "idle"
               /\ \/ cl'[t].ret = "ok" /\ cl'[t].out = <<r.meta>>
                  \/ cl'[t].ret = "NotFound" /\ r.save /\ ~ dir[a]
               /\ r.meta.pid = cl[t].meta.pid
               /\ r.meta.port = cl[t].meta.port
               /\ r.meta.error = cl[t].meta.error
               /\ metaFile' = IF r.save /\ dir[a]
                              THEN [metaFile EXCEPT ![a] = r.meta]
                              ELSE metaFile
               /\ procs' = procs
               /\ prov' = prov
               /\ UNCHANGED <<dir, logFile, venv, nextPid>>]_vars

\* C11 witness: a start returned the running record of an app whose process
\* is alive, and the record on disk is that record.
C11_Witness ==
    \E t \in Threads :
        /\ cl[t].op = "start" /\ cl[t].pc = "idle" /\ cl[t].ret = "ok"
        /\ cl[t].out[1].status = "running"
        /\ IsLive(procs, cl[t].out[1].pid)
        /\ metaFile[cl[t].app] = cl[t].out[1]
        /\ \A s \in Slots : prov[s].pc = "free"

C13_UpdateReusesPort ==
    [][\A t \in Threads :
          (cl[t].pc = "upd_write" /\ cl'[t].pc = "idle" /\ cl'[t].ret = "ok"
              /\ metaFile[cl[t].app].port # NoPort
              /\ is_port_free(procs, metaFile[cl[t].app].port)) =>
            metaFile'[cl[t].app].port = metaFile[cl[t].app].port]_vars

\* A provisioner thread ends in this step without having spawned the child:
\* a failure was raised in its pipeline.
ProvFailed(s) ==
    /\ prov[s].pc \in {"port", "venv", "install", "spawn"}
    /\ prov'[s].pc = "free"
    /\ nextPid' = nextPid

\* C15: a failure raised in the provisioning pipeline ends with the record
\* persisted as failed with a non-empty error; and a record persisted as
\* failed keeps that status until a start or update request for the app
\* writes it: no get, list or stop and no background thread moves it out of
\* failed.
C15_FailedIsTerminal ==
    [][/\ \A s \in Slots :
            ProvFailed(s) =>
              /\ metaFile'[prov[s].app].status = "failed"
              /\ metaFile'[prov[s].app].error # NoError
       /\ \A a \in Apps :
            (metaFile[a].status = "failed"
                /\ metaFile'[a].status \notin {"failed", "absent"}) =>
              \E t \in Threads :
                  /\ cl[t].app = a
                  /\ cl[t].op \in {"start", "update"}
                  /\ cl'[t] # cl[t]]_vars

\* A rename that an update request for app a returned with.
Renamed(a) ==
    {cl[t].out[1].name : t \in {u \in Threads :
        /\ cl[u].pc = "idle" /\ cl[u].op = "update" /\ cl[u].ret = "ok"
        /\ cl[u].app = a
        /\ cl[u].out[1].name \in UpdateNames \ {NoName}}}

\* C14: whenever no operation on the app is in progress, the record's
\* requirements digest and entry digest are the SHA-256 of the manifest and
\* entry script stored in the app directory, and its name is the last
\* non-empty name supplied: an update that replaced the files and the name
\* is not overwritten by a provisioner's persist of an older copy.
C14_DigestsMatch ==
    \A a \in Apps :
        (Exists(a) /\ Quiet(a) /\ reqFile[a] # NoFile /\ appFile[a] # NoFile) =>
            /\ metaFile[a].requirements_sha256 = sha256_file(reqFile[a])
            /\ metaFile[a].app_sha256 = sha256_file(appFile[a])
            /\ \A n \in Renamed(a) : metaFile[a].name = n

\* C16: with a range of exactly one port, every create returns a record,
\* also the create of an app B issued after an app A was created: B is left
\* to its provisioner, which fails it for want of a port.
C16_SecondCreateReturns ==
    \A t \in Threads :
        (cl[t].pc = "idle" /\ cl[t].op = "create") =>
            /\ cl[t].ret = "ok"
            /\ Len(cl[t].out) = 1

\* A capped command is still being waited for after its cap has passed.
OverCap(c) ==
    /\ rc.pc = "read" /\ rc.cmd = c
    /\ Timeout(c) # NoTimeout
    /\ rc.clock > Timeout(c)

\* C17: every install command that runs longer than its wall-clock cap is
\* aborted and the app marked failed, whether it keeps printing or prints
\* nothing while it hangs: once past the cap, eventually the app is failed
\* or the command has ended by itself.
C17_TimeoutAborts ==
    \A c \in 1..Len(Commands) :
        OverCap(c) ~> (rc.status = "failed" \/ rc.child # "up" \/ rc.cmd # c)

\* C18: a load that runs concurrently with saves sees the complete previous
\* or the complete new content: it always parses, and gives a record that
\* was saved.
C18_LoadSeesWholeRecord ==
    sv.rpc = "done" =>
        /\ sv.got = "record"
        /\ Parse(sv.text) \in sv.saved

\* C19: every request that names an app id with no record is answered 404
\* (GET record, PATCH, start, stop, logs, HTTP and WebSocket proxy), never
\* with an unhandled error; DELETE of an unknown id answers success.
C19_UnknownIs404 ==
    (rq.pc = "done" /\ ~ Exists(rq.app)) =>
        rq.status = IF rq.route = "delete_app" THEN 200 ELSE 404

\* C20: for every way the upstream request fails (connection refused, read
\* error, connect timeout, read timeout) the HTTP proxy answers 502.
C20_UpstreamFailureIs502 ==
    (rq.pc = "done" /\ rq.upstream \in UpstreamFailures) => rq.status = 502

\* C21: a proxied HTTP request to an app whose backend cannot be reached
\* leaves the app's persisted record as it was when the request arrived
\* (status, pid, port, error).
C21_ProxyLeavesRecord ==
    (rq.pc = "done" /\ rq.upstream \in UpstreamFailures) =>
        metaFile[rq.app] = rq.was

\* The name s is one of the comma-separated values of the header h, the
\* whitespace around a value not counted: h has a stretch that starts at
\* the beginning or after a comma, ends at the end or before a comma, holds
\* no comma, and is s between blanks.
IsOffered(s, h) ==
    /\ s # <<>> /\ s[1] # " " /\ s[Len(s)] # " "
    /\ \E i \in 1..Len(h), j \in 1..Len(h) :
         /\ j - i + 1 = Len(s)
         /\ \A k \in 1..Len(s) : h[i + k - 1] = s[k] /\ s[k] # ","
         /\ \E lo \in 1..i :
               /\ lo = 1 \/ h[lo - 1] = ","
               /\ \A k \in lo..(i - 1) : h[k] = " "
         /\ \E hi \in j..Len(h) :
               /\ hi = Len(h) \/ h[hi + 1] = ","
               /\ \A k \in (j + 1)..hi : h[k] = " "

\* C22: the proxy accepts the client upgrade with subprotocol s exactly
\* when the upstream selected s, s is not empty, and s is one of the
\* comma-separated values the client offered (whitespace trimmed); in every
\* other case it accepts with no subprotocol.
C22_SubprotocolEcho ==
    (call.fn = "proxy_ws" /\ call.pc = "accepted") =>
        call.accepted =
            IF call.chosen # NoSubprotocol /\ IsOffered(call.chosen, call.subp)
            THEN call.chosen ELSE NoSubprotocol

\* C22 witness: the client offered "x, y", the upstream selected y, and the
\* client was accepted with y.
C22_Witness ==
    /\ call.fn = "proxy_ws" /\ call.pc = "accepted"
    /\ call.subp = <<"x", ",", " ", "y">>
    /\ call.chosen = <<"y">>
    /\ call.accepted = <<"y">>

\* The sequence p is a prefix of the sequence q.
IsPrefix(p, q) == Len(p) <= Len(q) /\ \A i \in 1..Len(p) : p[i] = q[i]

\* C23: the frames delivered to the upstream are a prefix of the frames the
\* client sent, in the same order and each of the same kind (text as text,
\* binary as binary) and payload, and the same from the upstream to the
\* client: no frame is duplicated or reordered.
C23_RelayInOrder ==
    ws.pc # "none" =>
        /\ IsPrefix(ws.uGot, ws.cSent)
        /\ IsPrefix(ws.cGot, ws.uSent)

\* C23 witness: a text frame and then a binary frame have been relayed to
\* the upstream, and a binary frame and then a text frame to the client.
C23_Witness ==
    /\ ws.pc # "none"
    /\ Len(ws.uGot) = 2 /\ ws.uGot[1].kind = "text" /\ ws.uGot[2].kind = "binary"
    /\ Len(ws.cGot) = 2 /\ ws.cGot[1].kind = "binary" /\ ws.cGot[2].kind = "text"

\* One side of the session has closed, or one relay loop has finished.
WsEnding ==
    /\ ws.pc # "none"
    /\ \/ ws.client = "closed" \/ ws.upstream = "closed"
       \/ ws.c2u = "done" \/ ws.u2c = "done"

\* No relay loop runs and both connections are closed.
WsEnded ==
    /\ ws.pc = "returned"
    /\ ws.c2u \notin Running /\ ws.u2c \notin Running
    /\ ws.client = "closed" /\ ws.upstream = "closed"

Clamped(n) == IF n < 50 THEN 50 ELSE IF n > 5000 THEN 5000 ELSE n

\* The sequence r is the last m elements of the sequence q (all of q when q
\* has fewer).
IsLast(r, m, q) ==
    /\ Len(r) = (IF Len(q) < m THEN Len(q) ELSE m)
    /\ \A i \in 1..Len(r) : r[i] = q[Len(q) - Len(r) + i]

\* C25: tail_logs(app_id, n) returns the last m lines of the log joined by
\* newlines, m being n clamped to [50, 5000]: the last 50 lines for n below
\* 50 (also 0 and negative n), and never more than m lines.
C25_TailClamped ==
    (call.fn = "tail_logs" /\ call.pc = "done") =>
        \E r \in {SubSeq(splitlines(call.text), k, Len(splitlines(call.text))) :
                    k \in 1..(Len(splitlines(call.text)) + 1)} :
            /\ IsLast(r, Clamped(call.tail), splitlines(call.text))
            /\ call.logs = join(r)

\* C26: every persisted mutation of a record strictly increases its
\* updated_at, also when the thread that saves had read the record (or the
\* clock) before other threads saved; and updated_at is never below
\* created_at.
C26_UpdatedAtIncreases ==
    /\ [][(ts.pc = "saved" /\ ts'.file # ts.file) =>
             ts'.file.updated_at > ts.file.updated_at]_vars
    /\ [](ts.pc = "saved" => ts.file.updated_at >= ts.file.created_at)

\* A stop request for app a has returned a stopped record, and no start or
\* update request for a is in progress or has returned on another thread
\* (a later request on the same thread takes the place of the stop).
StopReturned(t, a) ==
    /\ cl[t].pc = "idle" /\ cl[t].op = "stop" /\ cl[t].ret = "ok"
    /\ cl[t].app = a
    /\ cl[t].out[1].status = "stopped"
    /\ \A u \in Threads \ {t} :
          ~ (cl[u].app = a /\ cl[u].op \in {"start", "update"})

\* C27: a stop issued while the app's provisioning is in flight is final
\* without cancellation: after the stop has returned stopped, with no later
\* start or update, the record is not starting or running again and no
\* child process of the app is running.
C27_StopIsFinal ==
    \A t \in Threads, a \in Apps :
        StopReturned(t, a) =>
            /\ metaFile[a].status \notin {"starting", "running"}
            /\ \A p \in Pids : procs[p].app = a => ~ IsLive(procs, p)

\* The records _refresh_status is about to be applied to (the ones request
\* threads have loaded) and the ones on disk, which the next request loads.
RefreshInputs ==
    {metaFile[a] : a \in {b \in Apps : Exists(b)}}
    \cup {cl[t].meta : t \in {u \in Threads :
              cl[u].pc \in {"get_refresh", "list_refresh", "start_refresh"}}}
    \cup {cl[t].smeta : t \in {u \in Threads : cl[u].pc = "stop_refresh"}}

\* C28: refresh_status(record) matches its three cases for every status,
\* pid and process state: pid absent, no change; pid present and the
\* process alive (not a zombie), a status outside {running, starting} is
\* promoted to running and persisted; pid present and the process missing
\* or a zombie, the pid is always cleared, and the status is demoted to
\* stopped and persisted when it is in {running, starting}.
C28_RefreshThreeCases ==
    \A meta \in RefreshInputs :
        LET r == refresh_status(meta, procs)
            live == {"running", "starting"}
        IN IF meta.pid = NoPid
           THEN r.meta = meta /\ ~ r.save
           ELSE IF IsLive(procs, meta.pid)
           THEN IF meta.status \notin live
                THEN r.meta = [meta EXCEPT !.status = "running"] /\ r.save
                ELSE r.meta = meta /\ ~ r.save
           ELSE /\ r.meta.pid = NoPid
                /\ meta.status \in live =>
                      (r.meta = [meta EXCEPT !.status = "stopped", !.pid = NoPid]
                       /\ r.save)
                /\ meta.status \notin live => r.meta.status = meta.status

\* Thread t returns in this step from a create or an update, both of which
\* take their port from _alloc_port(), with a record.
Allocates(t) ==
    /\ cl'[t] # cl[t]
    /\ cl'[t].pc = "idle" /\ cl'[t].op \in {"create", "update"}
    /\ cl'[t].ret = "ok"

\* App b holds a port an earlier allocation returned, and the child that is
\* to bind it has not done so: the record is starting and no process of b
\* listens.
AwaitsBind(b) ==
    /\ metaFile[b].status = "starting"
    /\ metaFile[b].port # NoPort
    /\ ~ \E p \in Pids : procs[p].app = b /\ procs[p].st = "bound"

\* C29: two allocations that follow one another before the first caller's
\* child has bound its port do not return the same port.
C29_AllocationsDiffer ==
    [][\A t \in Threads :
          Allocates(t) =>
            \A b \in Apps \ {cl'[t].app} :
                AwaitsBind(b) => cl'[t].out[1].port # metaFile[b].port]_vars

\* The header lines of the upstream request whose name is this one, the
\* case of the letters not counted.
Named(name) == {e \in call.req_headers : lower(e.name) = name}

\* C30: the request the HTTP proxy sends upstream carries none of the
\* client's hop-by-hop headers, and, names compared without case, exactly
\* one Host, equal to the externally observed host, and exactly one
\* Accept-Encoding, whose value is identity, whatever the client sent.
C30_UpstreamHeaders ==
    (call.fn = "proxy_http" /\ call.pc = "sent") =>
        /\ \A h \in HOP_BY_HOP_HEADERS \ {"host"} : Named(h) = {}
        /\ Named("host") =
              {[name |-> "Host", value |-> HeaderGet(call.client, "host")]}
        /\ Cardinality(Named("accept-encoding")) = 1
        /\ \A e \in Named("accept-encoding") : e.value = <<"identity">>

\* C31: when the control plane shuts down, every child recorded in an app
\* record's pid is terminated: once run_all.main has returned, no app
\* process the control plane spawned is still running.
C31_ShutdownKillsChildren ==
    (call.fn = "run_all" /\ call.pc = "returned") =>
        \A p \in Pids : ~ IsLive(procs, p)

\* Every request has returned and every provisioner thread has ended.
AllFinished ==
    /\ \A t \in Threads : cl[t].pc = "idle"
    /\ \A s \in Slots : prov[s].pc = "free"

\* C32: no orphan processes: once all operations and provisioners have
\* finished, every live child spawned for an app is the one whose pid the
\* app's record stores; so at most one child per app is alive, and none
\* for a stopped or deleted app.
C32_NoOrphans ==
    AllFinished =>
        \A p \in LivePids(procs) : metaFile[procs[p].app].pid = p

\* A get or a list of this start of the control plane has returned app a's
\* record.
Reconciled(a) ==
    \E t \in Threads :
        /\ cl[t].pc = "idle" /\ cl[t].ret = "ok"
        /\ \/ cl[t].op = "get" /\ cl[t].app = a
           \/ cl[t].op = "list" /\ \E i \in 1..Len(cl[t].out) : cl[t].out[i].app_id = a

Settled(a) == metaFile[a].status \in {"running", "failed", "stopped"}

\* C33: no app stays in status starting forever: with the provisioner
\* threads scheduled fairly and every command ending, a record saved as
\* starting reaches running, failed or stopped (unless the control plane is
\* restarted first); and a record that is starting after a restart reaches
\* one of them once a get or a list has reconciled it.
C33_StartingEnds ==
    \A a \in Apps :
        /\ (metaFile[a].status = "starting" /\ call = Booted(1))
              ~> (Settled(a) \/ call = Booted(2))
        /\ (metaFile[a].status = "starting" /\ call = Booted(2) /\ Reconciled(a))
              ~> Settled(a)

\* The create request of thread t has failed after it minted app a.
CreateFailed(t, a) ==
    /\ cl[t].pc = "idle" /\ cl[t].op = "create" /\ cl[t].app = a
    /\ cl[t].ret # "ok"

\* C34: create is all-or-nothing: when create has failed after it minted
\* the app directory (the allocator found no free port), no directory
\* apps/<id>/ and no file of the app is on disk, and no list returns a
\* record of it.
C34_CreateAllOrNothing ==
    \A t \in Threads, a \in Apps :
        CreateFailed(t, a) =>
            /\ ~ dir[a]
            /\ reqFile[a] = NoFile /\ appFile[a] = NoFile
            /\ ~ Exists(a)
            /\ \A u \in Threads :
                  (cl[u].pc = "idle" /\ cl[u].op = "list") =>
                      \A i \in 1..Len(cl[u].out) : cl[u].out[i].app_id # a

====
